---- MODULE Spec2Model ----
(***************************************************************************)
(* Verification model of rebinded's gated-hold strategy                    *)
(* (src/src/strategy/gated_hold.rs) together with the hold-timer tasks it  *)
(* spawns and the platform calls it makes (src/src/strategy/mod.rs).       *)
(*                                                                         *)
(* One GatedHoldStrategy instance is modelled.  Every `process` call is    *)
(* one atomic action (the strategy lock is held across it and the runtime  *)
(* is single-threaded); the spawned hold-timer tasks are separate actions  *)
(* that interleave with the process calls.  Time is a discrete clock.      *)
(*                                                                         *)
(* The platform is an effect sink: what a step executes is recorded in the *)
(* history of the step (last.executed) and of the press it belongs to      *)
(* (press_log[p].execs).                                                   *)
(***************************************************************************)
EXTENDS Integers, Sequences, FiniteSets, TLC

(***************************************************************************)
(* Bounds of the model                                                     *)
(***************************************************************************)
\* largest value of the clock
MaxTime == 4
\* number of presses (key-downs of an Idle key) explored
MaxPresses == 2
\* GatedHoldConfig.initial_hold_ms of the instance, in clock ticks
InitialHoldMs == 2
\* GatedHoldConfig.repeat_window_ms of the instance, in clock ticks
RepeatWindowMs == 2

(***************************************************************************)
(* Data                                                                    *)
(***************************************************************************)
\* key names (KeyCode::to_string) of the keys routed to the instance
Keys == {"K1", "K2"}

\* Option<Instant>::None
NoInstant == -1

\* InputEventId::Scroll { up }
ScrollId(u) == [kind |-> "Scroll", up |-> u]

\* the action the binding of a key resolves to (ctx.action of its events)
BoundAction(k) == IF k = "K1" THEN "MediaNext" ELSE "MediaPrevious"

\* the dummy ctx.action the dispatcher passes for subscribed events
DummyAction == "Block"

\* the diverts map of the configuration explored: one scroll direction is
\* configured as a divert, the other is not
DivertConfigs == { (ScrollId(TRUE) :> "VolumeUp") }

\* HashMap::new()
EmptyMap == [k \in {} |-> 0]

VARIABLES
    now,             \* the monotonic clock (Instant::now())
    diverts,         \* GatedHoldConfig.diverts
    key_states,      \* GatedHoldStrategy.key_states (absent key = Idle)
    last_release,    \* GatedHoldStrategy.last_release
    platform_handle, \* GatedHoldStrategy.platform_handle is Some
    timer_rx,        \* notices queued in the timer_tx/timer_rx channel
    tasks,           \* spawned hold-timer tasks that have not finished
    press_log,       \* history: one record per press (key-down of an Idle key)
    last_active,     \* history: when and how a key most recently left Active
    last,            \* history: what the most recent process call did
    phys,            \* environment: the keys that are physically down
    window,          \* environment: the focused window (get_active_window())
    bindings,        \* RuntimeConfig.bindings
    subscriptions,   \* RuntimeConfig.subscriptions
    s2_handle,       \* platform_handle of the second strategy instance "s2"
    disp,            \* history: what the most recent handle_event call did
    probe,           \* a binding, a window and what resolve_action returned
    platform,        \* the platform driver that runs: "linux" or "windows"
    pressed,         \* environment: the keys that are down at the keyboards
    senders,         \* Linux: the device tasks that hold a clone of event_tx
    event_rx,        \* the event channel the run loop receives from
    scroll_rx,       \* Linux: the channel from the X11 thread to the run loop
    replay_rx,       \* Linux: the replay decisions sent to the X11 thread
    x11_thread,      \* Linux: where the X11 thread is
    run_pc,          \* where Platform::run is
    in_flight,       \* the events whose handler call has not returned
    handled,         \* history: the handler calls that returned
    apps,            \* history: what the applications received
    hook,            \* Windows: the hook thread
    arrived,         \* number of events the environment has produced
    injected,        \* Windows: events sent with SendInput, not yet hooked
    issued,          \* history: the send_key / send_media calls made
    emit_tasks,      \* the tasks or threads spawned by send_key / send_media
    effects,         \* history: what reached the OS, in order
    load,            \* a configuration source and what loading it returned
    mpris,           \* Linux: the MPRIS players, the focus history, its mutex
    locks,           \* handle_event: where a call is, the strategy locks held
    pairs            \* history: per key, the responses to its down and its up

\* the strategy, the dispatcher and their histories
core_vars == << now, diverts, key_states, last_release, platform_handle,
                timer_rx, tasks, press_log, last_active, last, phys,
                window, bindings, subscriptions, s2_handle, disp, probe >>

\* the platform driver
driver_vars == << platform, pressed, senders, event_rx, scroll_rx, replay_rx,
                  x11_thread, run_pc, in_flight, handled, apps, hook, arrived,
                  injected >>

\* the side effects requested through the platform handle
emit_vars == << issued, emit_tasks, effects >>

\* what a step of the strategy or of the dispatcher leaves alone
rest_vars == << driver_vars, emit_vars, load, mpris, locks, pairs >>

\* the media player selection, the strategy locks, the history of the pairs
aux_vars == << mpris, locks, pairs >>

vars == << core_vars, driver_vars, emit_vars, load, aux_vars >>

\* the history record of a press that starts
NewPress(key_name, mode) ==
    [key |-> key_name, mode |-> mode, cancelled_by |-> "none",
     fired |-> FALSE, execs |-> 0]

\* the history record of a press that is over
EndedPress ==
    [key |-> "", mode |-> "Ended", cancelled_by |-> "none",
     fired |-> FALSE, execs |-> 0]

\* a press is over once its key has been released and its hold-timer task
\* has finished: nothing can be executed for it any more
Over(p) ==
    /\ p \notin DOMAIN tasks
    /\ \A k \in DOMAIN key_states : key_states[k].press # p

\* the history of the presses that were over before the step under way is
\* forgotten
Retire == [p \in DOMAIN press_log |-> IF Over(p) THEN EndedPress ELSE press_log[p]]

(***************************************************************************)
(* The strategy and its surroundings as one record, so that the methods    *)
(* of GatedHoldStrategy are operators from record to record.  The fields   *)
(* resp .. wrote_lr describe the process call under way.                   *)
(***************************************************************************)
World ==
    [ key_states |-> key_states, last_release |-> last_release,
      platform_handle |-> platform_handle, timer_rx |-> timer_rx,
      tasks |-> tasks, press_log |-> Retire, last_active |-> last_active,
      resp |-> "None", executed |-> << >>, cancelled |-> {},
      spawned |-> 0, wrote_lr |-> FALSE, gate |-> FALSE, promoted |-> {} ]

\* HashMap::remove
MapRemove(m, k) == [x \in (DOMAIN m) \ {k} |-> m[x]]

\* HashMap::insert
MapInsert(m, k, v) == [x \in (DOMAIN m) \union {k} |-> IF x = k THEN v ELSE m[x]]

\* state of a key as the match in key_down / key_up sees it
StateOf(ks, k) == IF k \in DOMAIN ks THEN ks[k].st ELSE "Idle"

\* Instant::elapsed
Elapsed(t) == IF now >= t THEN now - t ELSE 0

\* PlatformHandle::execute: Passthrough and Block make no platform call
Execute(w, action, src, press) ==
    IF action \in {"Passthrough", "Block"}
    THEN w
    ELSE LET c == [action |-> action, src |-> src, press |-> press]
             w1 == [w EXCEPT !.executed = Append(@, c)]
         IN  IF press = 0
             THEN w1
             ELSE [w1 EXCEPT !.press_log = [@ EXCEPT ![press].execs = @ + 1]]

\* oneshot cancel signal: cancel_tx.send(()) and dropping cancel_tx both
\* resolve cancel_rx of the task holding it, if that task is still running
Cancel(w, id, by) ==
    IF id \in DOMAIN w.tasks
    THEN [w EXCEPT !.tasks = [@ EXCEPT ![id].cancelled = TRUE],
                   !.cancelled = @ \union {id},
                   !.press_log = [@ EXCEPT ![id].cancelled_by = by]]
    ELSE w

any_key_held(w) ==
    \E k \in DOMAIN w.key_states :
        w.key_states[k].st \in {"Holding", "Active", "Diverted"}

\* variant of is_gate_open: the repeat window includes its end instant
is_gate_open_Inclusive(w) ==
    LET any_active == \E k \in DOMAIN w.key_states : w.key_states[k].st = "Active"
    IN  IF any_active
        THEN TRUE
        ELSE IF w.last_release # NoInstant /\ Elapsed(w.last_release) <= RepeatWindowMs
             THEN TRUE
             ELSE FALSE

is_gate_open(w) ==
    LET any_active == \E k \in DOMAIN w.key_states : w.key_states[k].st = "Active"
    IN  IF any_active
        THEN TRUE
        ELSE IF w.last_release # NoInstant /\ Elapsed(w.last_release) < RepeatWindowMs
             THEN TRUE
             ELSE FALSE

\* history: key k leaves Active at this instant
LeaveActive(w, k, by) ==
    [w EXCEPT !.last_active = [at |-> now, by |-> by, key |-> k]]

\* the hold-timer task spawned by key_down: sleeps until deadline unless
\* cancel_rx resolves
NewTask(key_name, action) ==
    [key |-> key_name, action |-> action,
     deadline |-> now + InitialHoldMs, cancelled |-> FALSE]

\* variant of DivertKey: an Active key is diverted without recording last_release
DivertKey_NoStamp(w, k) ==
    LET s == w.key_states[k]
        w1 == IF s.st = "Holding"
              THEN Cancel(w, s.press, "divert")
              ELSE LeaveActive(w, k, "divert")
    IN  [w1 EXCEPT !.key_states = MapInsert(@, k, [st |-> "Diverted", press |-> s.press])]

\* one iteration of the loop of divert_all_held_keys: the iterations touch
\* different keys and stamp the same instant, so their order is immaterial
DivertKey(w, k) ==
    LET s == w.key_states[k]
        w1 == IF s.st = "Holding"
              THEN Cancel(w, s.press, "divert")
              ELSE [LeaveActive(w, k, "divert") EXCEPT
                       !.last_release = now, !.wrote_lr = TRUE]
    IN  [w1 EXCEPT !.key_states = MapInsert(@, k, [st |-> "Diverted", press |-> s.press])]

RECURSIVE DivertKeys(_, _)
DivertKeys(w, ks) ==
    IF ks = {}
    THEN w
    ELSE LET k == CHOOSE x \in ks : TRUE
         IN  DivertKeys(DivertKey(w, k), ks \ {k})

\* variant of divert_all_held_keys: only Holding keys are selected
divert_all_held_keys_OnlyHolding(w) ==
    LET keys_to_divert ==
            {k \in DOMAIN w.key_states : w.key_states[k].st = "Holding"}
    IN  DivertKeys(w, keys_to_divert)

divert_all_held_keys(w) ==
    LET keys_to_divert ==
            {k \in DOMAIN w.key_states : w.key_states[k].st \in {"Holding", "Active"}}
    IN  DivertKeys(w, keys_to_divert)

\* variant of handle_divert: the held keys are diverted before the event id is
\* looked up in the diverts map
handle_divert_DivertFirst(w, event_id) ==
    IF ~any_key_held(w)
    THEN [w EXCEPT !.resp = "Passthrough"]
    ELSE LET w1 == divert_all_held_keys(w)
         IN  IF event_id \notin DOMAIN diverts
             THEN [w1 EXCEPT !.resp = "Passthrough"]
             ELSE LET w2 == IF w1.platform_handle
                            THEN Execute(w1, diverts[event_id], "divert", 0)
                            ELSE w1
                  IN  [w2 EXCEPT !.resp = "Block"]

\* variant of handle_divert: the check that a key is held is missing
handle_divert_NoHeldCheck(w, event_id) ==
    IF event_id \notin DOMAIN diverts
    THEN [w EXCEPT !.resp = "Passthrough"]
    ELSE LET w1 == divert_all_held_keys(w)
             w2 == IF w1.platform_handle
                   THEN Execute(w1, diverts[event_id], "divert", 0)
                   ELSE w1
         IN  [w2 EXCEPT !.resp = "Block"]

handle_divert(w, event_id) ==
    IF event_id \notin DOMAIN diverts
    THEN [w EXCEPT !.resp = "Passthrough"]
    ELSE IF ~any_key_held(w)
    THEN [w EXCEPT !.resp = "Passthrough"]
    ELSE LET w1 == divert_all_held_keys(w)
             w2 == IF w1.platform_handle
                   THEN Execute(w1, diverts[event_id], "divert", 0)
                   ELSE w1
         IN  [w2 EXCEPT !.resp = "Block"]

\* the body of the loop of process_timer_completions for one notice;
\* overwriting Holding { cancel_tx } drops cancel_tx
PromoteKey(w, key_name) ==
    IF StateOf(w.key_states, key_name) = "Holding"
    THEN LET p == w.key_states[key_name].press
             w1 == Cancel(w, p, "drop")
         IN  [w1 EXCEPT !.key_states = MapInsert(@, key_name, [st |-> "Active", press |-> p]),
                        !.promoted = @ \union {key_name}]
    ELSE w

RECURSIVE process_timer_completions(_)
process_timer_completions(w) ==
    IF w.timer_rx = << >>
    THEN w
    ELSE LET key_name == Head(w.timer_rx)
         IN  process_timer_completions(
                 PromoteKey([w EXCEPT !.timer_rx = Tail(@)], key_name))

\* variant of KeyDownIdle: with the gate open the key becomes Active but
\* ctx.execute() is not called
KeyDownIdle_NoExecute(w, key_name, ctx_action, gate_open) ==
    LET p == Len(w.press_log) + 1
    IN  IF gate_open
        THEN [w EXCEPT
                 !.key_states = MapInsert(@, key_name, [st |-> "Active", press |-> p]),
                 !.press_log = Append(@, NewPress(key_name, "Direct")),
                 !.resp = "Block"]
        ELSE [w EXCEPT
                 !.tasks = MapInsert(@, p, NewTask(key_name, ctx_action)),
                 !.spawned = p,
                 !.key_states = MapInsert(@, key_name, [st |-> "Holding", press |-> p]),
                 !.press_log = Append(@, NewPress(key_name, "Holding")),
                 !.resp = "Block"]

\* key_down, arm KeyState::Idle
KeyDownIdle(w, key_name, ctx_action, gate_open) ==
    LET p == Len(w.press_log) + 1
    IN  IF gate_open
        THEN LET w1 == [w EXCEPT
                           !.key_states = MapInsert(@, key_name, [st |-> "Active", press |-> p]),
                           !.press_log = Append(@, NewPress(key_name, "Direct"))]
             IN  [Execute(w1, ctx_action, "key_down", p) EXCEPT !.resp = "Block"]
        ELSE [w EXCEPT
                 !.tasks = MapInsert(@, p, NewTask(key_name, ctx_action)),
                 !.spawned = p,
                 !.key_states = MapInsert(@, key_name, [st |-> "Holding", press |-> p]),
                 !.press_log = Append(@, NewPress(key_name, "Holding")),
                 !.resp = "Block"]

\* variant of KeyDownHeld: a key-down of an Active key executes the action again
KeyDownHeld_Repeat(w, key_name, ctx_action) ==
    IF w.key_states[key_name].st = "Active"
    THEN [Execute(w, ctx_action, "key_down", w.key_states[key_name].press)
             EXCEPT !.resp = "Block"]
    ELSE [w EXCEPT !.resp = "Block"]

\* variant of KeyDownHeld: a key-down of a Holding key restarts its hold timer
KeyDownHeld_Restart(w, key_name, ctx_action) ==
    LET s == w.key_states[key_name]
    IN  IF s.st = "Holding" /\ s.press \in DOMAIN w.tasks
        THEN [w EXCEPT !.tasks = [@ EXCEPT ![s.press].deadline = now + InitialHoldMs],
                       !.resp = "Block"]
        ELSE [w EXCEPT !.resp = "Block"]

\* key_down, arms KeyState::Holding, Active and Diverted: the removed state
\* is put back
KeyDownHeld(w, key_name, ctx_action) ==
    [w EXCEPT !.resp = "Block"]

key_down(w, key_name, ctx_action) ==
    LET gate_open == is_gate_open(w)
        current_state == StateOf(w.key_states, key_name)
        w0 == [w EXCEPT !.gate = gate_open]
    IN  IF current_state = "Idle"
        THEN KeyDownIdle(w0, key_name, ctx_action, gate_open)
        ELSE KeyDownHeld(w0, key_name, ctx_action)

\* variant of KeyUpHolding: the release of a Holding key records last_release
KeyUpHolding_Stamp(w, key_name) ==
    LET w1 == [w EXCEPT !.key_states = MapRemove(@, key_name),
                        !.last_release = now, !.wrote_lr = TRUE]
    IN  Cancel(w1, w.key_states[key_name].press, "key_up")

\* key_up, arm KeyState::Holding
KeyUpHolding(w, key_name) ==
    LET w1 == [w EXCEPT !.key_states = MapRemove(@, key_name)]
    IN  Cancel(w1, w.key_states[key_name].press, "key_up")

\* variant of KeyUpActive: the entry is kept with an Idle value instead of
\* being removed
KeyUpActive_StoreIdle(w, key_name) ==
    [LeaveActive(w, key_name, "key_up") EXCEPT
        !.key_states = [@ EXCEPT ![key_name].st = "Idle"],
        !.last_release = now, !.wrote_lr = TRUE]

\* key_up, arm KeyState::Active
KeyUpActive(w, key_name) ==
    [LeaveActive(w, key_name, "key_up") EXCEPT
        !.key_states = MapRemove(@, key_name),
        !.last_release = now, !.wrote_lr = TRUE]

\* variant of KeyUpDiverted: the release of a Diverted key records last_release
KeyUpDiverted_Stamp(w, key_name) ==
    [w EXCEPT !.key_states = MapRemove(@, key_name),
              !.last_release = now, !.wrote_lr = TRUE]

\* key_up, arm KeyState::Diverted
KeyUpDiverted(w, key_name) ==
    [w EXCEPT !.key_states = MapRemove(@, key_name)]

key_up(w, key_name) ==
    LET current_state == StateOf(w.key_states, key_name)
        w1 == CASE current_state = "Holding"  -> KeyUpHolding(w, key_name)
                [] current_state = "Active"   -> KeyUpActive(w, key_name)
                [] current_state = "Diverted" -> KeyUpDiverted(w, key_name)
                [] OTHER                      -> w
    IN  [w1 EXCEPT !.resp = "Block"]

\* InputEvent::Key(KeyEvent { key, down })
KeyEvent(k, d) == [kind |-> "Key", key |-> k, down |-> d, up |-> FALSE]

\* InputEvent::Scroll { up }
ScrollEvent(u) == [kind |-> "Scroll", key |-> "", down |-> FALSE, up |-> u]

\* the first two steps of process: drain the notices, cache the handle
Prepare(w) ==
    [process_timer_completions(w) EXCEPT !.platform_handle = TRUE]

\* variant of process: the notices are drained after the event is handled
process_DrainLast(w, event, ctx_action) ==
    LET w1 == [w EXCEPT !.platform_handle = TRUE]
        w2 == IF event.kind = "Key"
              THEN IF event.down
                   THEN key_down(w1, event.key, ctx_action)
                   ELSE key_up(w1, event.key)
              ELSE handle_divert(w1, ScrollId(event.up))
    IN  process_timer_completions(w2)

process(w, event, ctx_action) ==
    LET w1 == Prepare(w)
    IN  IF event.kind = "Key"
        THEN IF event.down
             THEN key_down(w1, event.key, ctx_action)
             ELSE key_up(w1, event.key)
        ELSE handle_divert(w1, ScrollId(event.up))

(***************************************************************************)
(* Bindings: conditions on the focused window and action resolution        *)
(* (config/types.rs, config/mod.rs).  Strings are sequences of characters; *)
(* an Option is a sequence of length 0 (None) or 1 (Some).                 *)
(***************************************************************************)
None == << >>
Some(x) == << x >>

\* glob_match::glob_match on patterns made of literals, ? and *
RECURSIVE glob_match(_, _)
glob_match(pattern, value) ==
    IF pattern = << >> THEN value = << >>
    ELSE IF Head(pattern) = "*"
         THEN \/ glob_match(Tail(pattern), value)
              \/ value # << >> /\ glob_match(pattern, Tail(value))
         ELSE /\ value # << >>
              /\ Head(pattern) = "?" \/ Head(pattern) = Head(value)
              /\ glob_match(Tail(pattern), Tail(value))

\* struct WindowInfo
WindowInfo(title, class, binary) ==
    [title |-> title, class |-> class, binary |-> binary]

\* struct WindowCondition (the one field of struct Condition)
WindowCondition(title, not_title, class, not_class, binary, not_binary) ==
    [title |-> title, not_title |-> not_title, class |-> class,
     not_class |-> not_class, binary |-> binary, not_binary |-> not_binary]

\* Condition::is_empty / WindowCondition::is_empty
is_empty(c) ==
    /\ c.title = None /\ c.not_title = None
    /\ c.class = None /\ c.not_class = None
    /\ c.binary = None /\ c.not_binary = None

\* a positive pattern, if specified, must match
PositiveOk(pattern, value) == pattern = None \/ glob_match(pattern[1], value)

\* a negative pattern, if specified, must not match
NegativeOk(pattern, value) == pattern = None \/ ~glob_match(pattern[1], value)

\* variant of matches: the negated patterns are not looked at
matches_IgnoreNegations(c, info) ==
    /\ PositiveOk(c.title, info.title)
    /\ PositiveOk(c.class, info.class)
    /\ PositiveOk(c.binary, info.binary)

\* WindowCondition::matches
matches(c, info) ==
    /\ PositiveOk(c.title, info.title)
    /\ PositiveOk(c.class, info.class)
    /\ PositiveOk(c.binary, info.binary)
    /\ NegativeOk(c.not_title, info.title)
    /\ NegativeOk(c.not_class, info.class)
    /\ NegativeOk(c.not_binary, info.binary)

\* struct ConditionalAction
Rule(condition, action) == [condition |-> condition, action |-> action]

\* ActionSpec::Simple / ActionSpec::Conditional
Simple(action) == [kind |-> "Simple", action |-> action, rules |-> << >>]
Conditional(rules) == [kind |-> "Conditional", action |-> "", rules |-> rules]

\* struct Binding; strategy is None or Some(name)
Binding(action_spec, strategy) == [action |-> action_spec, strategy |-> strategy]

\* resolve_action returning None
NoAction == "None"

\* the loop of resolve_action over the rules from index i on: the action of
\* the rule that returns and the number of rules whose condition was evaluated
RECURSIVE ResolveRules(_, _, _)
ResolveRules(rules, info, i) ==
    IF i > Len(rules)
    THEN [action |-> NoAction, consulted |-> Len(rules)]
    ELSE IF is_empty(rules[i].condition) \/ matches(rules[i].condition, info)
         THEN [action |-> rules[i].action, consulted |-> i]
         ELSE ResolveRules(rules, info, i + 1)

\* RuntimeConfig::resolve_action
resolve_action(table, key, info) ==
    IF key \notin DOMAIN table THEN NoAction
    ELSE LET binding == table[key]
         IN  IF binding.action.kind = "Simple"
             THEN binding.action.action
             ELSE ResolveRules(binding.action.rules, info, 1).action

\* Action::as_response
as_response(action) ==
    CASE action = "Passthrough" -> "Passthrough"
      [] action = "Block"       -> "Block"
      [] OTHER                  -> "None"

(***************************************************************************)
(* History of the most recent process call                                 *)
(***************************************************************************)
NoCall ==
    [kind |-> "None", key |-> "", down |-> FALSE, up |-> FALSE, action |-> "",
     resp |-> "None", before |-> EmptyMap, pre |-> EmptyMap,
     pre_lr |-> NoInstant, pre_tasks |-> {}, executed |-> << >>, cancelled |-> {},
     spawned |-> 0, wrote_lr |-> FALSE, gate |-> FALSE, promoted |-> {}]

CallRecord(event, ctx_action, r) ==
    [kind |-> event.kind, key |-> event.key, down |-> event.down, up |-> event.up,
     action |-> ctx_action, resp |-> r.resp,
     before |-> key_states, pre |-> Prepare(World).key_states,
     pre_lr |-> last_release, pre_tasks |-> DOMAIN tasks,
     executed |-> r.executed, cancelled |-> r.cancelled,
     spawned |-> r.spawned, wrote_lr |-> r.wrote_lr, gate |-> r.gate,
     promoted |-> r.promoted]

(***************************************************************************)
(* The dispatcher's configuration and history                              *)
(***************************************************************************)
\* InputEventId::Key
KeyId(k) == [kind |-> "Key", key |-> k]

\* InputEvent::id
EventId(event) ==
    IF event.kind = "Key" THEN KeyId(event.key) ELSE ScrollId(event.up)

\* RuntimeConfig.strategies: two gated-hold instances
Strategies == {"s1", "s2"}

\* the focused windows
WinA == WindowInfo(<< "a" >>, << "a" >>, << "a", "b" >>)
WinB == WindowInfo(<< "b" >>, << "b" >>, << "b" >>)
Windows == {WinA, WinB}

NoCondition == WindowCondition(None, None, None, None, None, None)

\* binary = "a*"
BinaryA == WindowCondition(None, None, None, None, Some(<< "a", "*" >>), None)

\* title = "b"
TitleB == WindowCondition(Some(<< "b" >>), None, None, None, None, None)

\* not_class = "b", not_binary = "?"
NotClassB == WindowCondition(None, None, None, Some(<< "b" >>), None, Some(<< "?" >>))

\* K1 is bound to strategy "s1" with an action that depends on the window,
\* K2 is bound without a strategy
ConfigX ==
    [bindings |->
        ( "K1" :> Binding(Conditional(<< Rule(BinaryA, "MediaNext"),
                                         Rule(TitleB, "Block") >>), Some("s1")) )
        @@
        ( "K2" :> Binding(Conditional(<< Rule(NotClassB, "VolumeDown"),
                                         Rule(NoCondition, "Passthrough") >>), None) ),
     diverts |-> (ScrollId(TRUE) :> "VolumeUp"),
     order |-> << "s1", "s2" >>]

\* K1 has no binding; K2 is bound without a strategy and is also a divert
\* of "s1"
ConfigZ ==
    [bindings |-> ( "K2" :> Binding(Simple("VolumeDown"), None) ),
     diverts |-> (ScrollId(TRUE) :> "VolumeUp") @@ (KeyId("K2") :> "VolumeMute"),
     order |-> << "s2", "s1" >>]

\* K1 is bound to strategy "s1"; K2 is bound without a strategy and is also
\* a divert of "s1"
ConfigY ==
    [bindings |->
        ( "K1" :> Binding(Simple("MediaNext"), Some("s1")) )
        @@
        ( "K2" :> Binding(Simple("VolumeDown"), None) ),
     diverts |-> (ScrollId(TRUE) :> "VolumeUp") @@ (KeyId("K2") :> "VolumeMute"),
     order |-> << "s1", "s2" >>]

\* GatedHoldConfig.diverts of "s2"
S2Diverts == (ScrollId(TRUE) :> "VolumeUp")

\* GatedHoldStrategy::subscriptions of the strategy called name
StrategySubscriptions(name, s1_diverts) ==
    IF name = "s1" THEN DOMAIN s1_diverts ELSE DOMAIN S2Diverts

\* the strategies subscribed to event id e, in the order in which order
\* lists the strategies
Subscribers(e, order, s1_diverts) ==
    LET first == IF e \in StrategySubscriptions(order[1], s1_diverts)
                 THEN << order[1] >> ELSE << >>
        second == IF e \in StrategySubscriptions(order[2], s1_diverts)
                  THEN << order[2] >> ELSE << >>
    IN  first \o second

\* RuntimeConfig.subscriptions: every event id some strategy subscribes to,
\* with its subscribers
Subscriptions(order, s1_diverts) ==
    [e \in UNION {StrategySubscriptions(n, s1_diverts) : n \in Strategies}
        |-> Subscribers(e, order, s1_diverts)]

NoDispatch ==
    [kind |-> "None", key |-> "", down |-> FALSE, up |-> FALSE,
     resp |-> "None", called |-> << >>, lookup |-> FALSE, resolved |-> "",
     direct |-> << >>, changed |-> {}]

NoProbe == [done |-> FALSE, action |-> "", consulted |-> 0, resp |-> "None"]

\* no platform driver is running
NoDriver ==
    /\ platform = ""
    /\ pressed = {}
    /\ senders = {}
    /\ event_rx = << >>
    /\ scroll_rx = << >>
    /\ replay_rx = << >>
    /\ x11_thread = "absent"
    /\ run_pc = "off"
    /\ in_flight = << >>
    /\ handled = << >>
    /\ apps = << >>
    /\ hook = [pc |-> "off", response |-> "None"]
    /\ arrived = 0
    /\ injected = << >>

\* no side effect was requested
NoEmit ==
    /\ issued = << >>
    /\ emit_tasks = << >>
    /\ effects = << >>

\* no media player is looked for, no handle_event call is followed step by
\* step, no pair of key events is recorded
NoAux ==
    /\ mpris = [pc |-> "off"]
    /\ locks = [pc |-> "off"]
    /\ pairs = << >>

\* nothing was loaded
NoLoad ==
    [done |-> FALSE, result |-> "None", source_content |-> << >>,
     bindings |-> << >>, order |-> << >>, issues |-> << >>,
     runtime |-> [bindings |-> {}, strategies |-> {}]]

(***************************************************************************)
(* Actions                                                                 *)
(***************************************************************************)
Init ==
    /\ now = 0
    /\ diverts \in DivertConfigs
    /\ key_states = EmptyMap
    /\ last_release = NoInstant
    /\ platform_handle = FALSE
    /\ timer_rx = << >>
    /\ tasks = EmptyMap
    /\ press_log = << >>
    /\ last_active = [at |-> NoInstant, by |-> "none", key |-> ""]
    /\ last = NoCall
    /\ phys = {}
    /\ window = WinA
    /\ bindings = EmptyMap
    /\ subscriptions = EmptyMap
    /\ s2_handle = FALSE
    /\ disp = NoDispatch
    /\ probe = NoProbe
    /\ NoDriver
    /\ NoEmit
    /\ load = NoLoad
    /\ NoAux

\* the physical position of the keys after the event
Physical(event) ==
    IF event.kind # "Key" THEN phys
    ELSE IF event.down THEN phys \cup {event.key} ELSE phys \ {event.key}

\* one call of GatedHoldStrategy::process, made under the strategy lock
Process(event, ctx_action) ==
    LET r == process(World, event, ctx_action)
    IN  /\ Len(r.press_log) <= MaxPresses
        /\ key_states' = r.key_states
        /\ last_release' = r.last_release
        /\ platform_handle' = r.platform_handle
        /\ timer_rx' = r.timer_rx
        /\ tasks' = r.tasks
        /\ press_log' = r.press_log
        /\ last_active' = r.last_active
        /\ last' = CallRecord(event, ctx_action, r)
        /\ phys' = Physical(event)
        /\ UNCHANGED << now, diverts, window, bindings, subscriptions, s2_handle, disp,
                        probe >>
        /\ UNCHANGED rest_vars

ProcessKeyDown == \E k \in Keys : Process(KeyEvent(k, TRUE), BoundAction(k))

ProcessKeyUp == \E k \in Keys : Process(KeyEvent(k, FALSE), BoundAction(k))

ProcessScroll == \E u \in BOOLEAN : Process(ScrollEvent(u), DummyAction)

\* variant of TimerFire: the task itself makes its key Active
TimerFire_Promote(id) ==
    /\ id \in DOMAIN tasks
    /\ now >= tasks[id].deadline
    /\ LET r == Execute(World, tasks[id].action, "timer", id)
       IN  press_log' = [r.press_log EXCEPT ![id].fired = TRUE]
    /\ key_states' = [k \in DOMAIN key_states |->
                         IF k = tasks[id].key
                         THEN [key_states[k] EXCEPT !.st = "Active"]
                         ELSE key_states[k]]
    /\ timer_rx' = Append(timer_rx, tasks[id].key)
    /\ tasks' = MapRemove(tasks, id)
    /\ last' = NoCall
    /\ disp' = NoDispatch
    /\ UNCHANGED << now, diverts, last_release, platform_handle,
                    last_active, phys, window, bindings, subscriptions, s2_handle,
                    probe >>
    /\ UNCHANGED rest_vars

\* the sleep branch of the select! of a hold-timer task: execute the action,
\* then post the promote notice
TimerFire(id) ==
    /\ id \in DOMAIN tasks
    /\ now >= tasks[id].deadline
    /\ LET r == Execute(World, tasks[id].action, "timer", id)
       IN  press_log' = [r.press_log EXCEPT ![id].fired = TRUE]
    /\ timer_rx' = Append(timer_rx, tasks[id].key)
    /\ tasks' = MapRemove(tasks, id)
    /\ last' = NoCall
    /\ disp' = NoDispatch
    /\ UNCHANGED << now, diverts, key_states, last_release, platform_handle,
                    last_active, phys, window, bindings, subscriptions, s2_handle,
                    probe >>
    /\ UNCHANGED rest_vars

\* the cancel_rx branch of the select!: the task ends without any effect
TimerCancelled(id) ==
    /\ id \in DOMAIN tasks
    /\ tasks[id].cancelled
    /\ tasks' = MapRemove(tasks, id)
    /\ press_log' = Retire
    /\ last' = NoCall
    /\ disp' = NoDispatch
    /\ UNCHANGED << now, diverts, key_states, last_release, platform_handle,
                    timer_rx, last_active, phys, window, bindings, subscriptions,
                    s2_handle, probe >>
    /\ UNCHANGED rest_vars

TimerFires == \E id \in 1..MaxPresses : TimerFire(id)

TimerCancels == \E id \in 1..MaxPresses : TimerCancelled(id)

\* a task whose select! has a ready branch: the runtime has woken it
Runnable(id) == tasks[id].cancelled \/ now >= tasks[id].deadline

\* the clock advances; the runtime polls a woken task within the clock tick in
\* which it was woken, process calls may still come before the poll
Tick ==
    /\ now < MaxTime
    /\ \A id \in DOMAIN tasks : ~Runnable(id)
    /\ now' = now + 1
    /\ press_log' = Retire
    /\ last' = NoCall
    /\ disp' = NoDispatch
    /\ UNCHANGED << diverts, key_states, last_release, platform_handle,
                    timer_rx, tasks, last_active, phys, window, bindings, subscriptions,
                    s2_handle, probe >>
    /\ UNCHANGED rest_vars

Next ==
    \/ ProcessKeyDown
    \/ ProcessKeyUp
    \/ ProcessScroll
    \/ TimerFires
    \/ TimerCancels
    \/ Tick

Spec == Init /\ [][Next]_vars

(***************************************************************************)
(* The dispatcher (main.rs, handle_event)                                  *)
(***************************************************************************)
\* the second strategy instance: no key is bound to it, so of its fields
\* only platform_handle ever differs from a new strategy's
S2World ==
    [ key_states |-> EmptyMap, last_release |-> NoInstant,
      platform_handle |-> s2_handle, timer_rx |-> << >>,
      tasks |-> EmptyMap, press_log |-> << >>,
      last_active |-> [at |-> NoInstant, by |-> "none", key |-> ""],
      resp |-> "None", executed |-> << >>, cancelled |-> {},
      spawned |-> 0, wrote_lr |-> FALSE, gate |-> FALSE, promoted |-> {} ]

\* what handle_event has done so far: the two strategies, the response, the
\* strategies whose process was called, whether bindings.get was reached,
\* the resolved action and the actions executed by platform.execute
Dispatch ==
    [ s1 |-> World, s2 |-> S2World, resp |-> "None", called |-> << >>,
      ctx |-> "", lookup |-> FALSE, resolved |-> "", direct |-> << >> ]

\* strategy.lock().await, then strategy_guard.process(&event, &ctx); role
\* tells the call for a subscriber from the call for the binding's strategy.
\* The result r of process is bound through a singleton set, so that it is
\* computed once for the call.
CallProcess(d, name, role, event, ctx_action) ==
    CHOOSE d1 \in
        { [d EXCEPT !.called = Append(@, [name |-> name, role |-> role,
                                          resp |-> r.resp]),
                    !.ctx = IF name = "s1" THEN ctx_action ELSE @,
                    !.s1 = IF name = "s1" THEN r ELSE @,
                    !.s2 = IF name = "s2" THEN r ELSE @,
                    !.resp = r.resp] :
          r \in { process(IF name = "s1" THEN d.s1 ELSE d.s2,
                          event, ctx_action) } } : TRUE

\* variant of Route: the response of a subscriber is not looked at
RECURSIVE Route_IgnoreResponse(_, _, _)
Route_IgnoreResponse(d, strategy_names, event) ==
    IF strategy_names = << >>
    THEN [d EXCEPT !.resp = "None"]
    ELSE Route_IgnoreResponse(
             CallProcess(d, Head(strategy_names), "subscriber", event, DummyAction),
             Tail(strategy_names), event)

\* the loop over the subscribed strategies; it returns at the first Block
RECURSIVE Route(_, _, _)
Route(d, strategy_names, event) ==
    IF strategy_names = << >>
    THEN [d EXCEPT !.resp = "None"]
    ELSE LET d1 == CallProcess(d, Head(strategy_names), "subscriber", event,
                              DummyAction)
         IN  IF d1.resp = "Block"
             THEN d1
             ELSE Route(d1, Tail(strategy_names), event)

\* variant of DirectExecute: the action is executed on both edges
DirectExecute_BothEdges(d, event, action) ==
    [d EXCEPT !.direct = Append(@, action), !.resp = "Block"]

\* variant of DirectExecute: only the key-down is blocked
DirectExecute_PassUp(d, event, action) ==
    [d EXCEPT !.direct = IF event.down THEN Append(@, action) ELSE @,
              !.resp = IF event.down THEN "Block" ELSE "Passthrough"]

\* no strategy: execute the action directly on key-down
DirectExecute(d, event, action) ==
    [d EXCEPT !.direct = IF event.down THEN Append(@, action) ELSE @,
              !.resp = "Block"]

\* variant of HandleBinding: Passthrough and Block are handled like the
\* executable actions
HandleBinding_NoAsResponse(d, event) ==
    LET d1 == [d EXCEPT !.lookup = TRUE]
    IN  IF event.key \notin DOMAIN bindings
        THEN [d1 EXCEPT !.resp = "Passthrough"]
        ELSE LET binding == bindings[event.key]
                 action == resolve_action(bindings, event.key, window)
                 d2 == [d1 EXCEPT !.resolved = action]
             IN  IF action = NoAction
                 THEN [d2 EXCEPT !.resp = "Passthrough"]
                 ELSE IF binding.strategy # None /\ binding.strategy[1] \in Strategies
                      THEN CallProcess(d2, binding.strategy[1], "binding", event, action)
                      ELSE DirectExecute(d2, event, action)

\* handle_event for a key event that no subscriber blocked: binding lookup,
\* action resolution, then the strategy of the binding or direct execution
HandleBinding(d, event) ==
    LET d1 == [d EXCEPT !.lookup = TRUE]
    IN  IF event.key \notin DOMAIN bindings
        THEN [d1 EXCEPT !.resp = "Passthrough"]
        ELSE LET binding == bindings[event.key]
                 action == resolve_action(bindings, event.key, window)
                 d2 == [d1 EXCEPT !.resolved = action]
             IN  IF action = NoAction
                 THEN [d2 EXCEPT !.resp = "Passthrough"]
                 ELSE IF as_response(action) # "None"
                      THEN [d2 EXCEPT !.resp = as_response(action)]
                      ELSE IF binding.strategy # None /\ binding.strategy[1] \in Strategies
                           THEN CallProcess(d2, binding.strategy[1], "binding", event, action)
                           ELSE DirectExecute(d2, event, action)

\* variant of handle_event: a scroll event that no subscriber blocked is
\* blocked
handle_event_ScrollBlock(d, event) ==
    LET event_id == EventId(event)
        d1 == IF event_id \in DOMAIN subscriptions
              THEN Route(d, subscriptions[event_id], event)
              ELSE d
    IN  IF d1.resp = "Block"
        THEN d1
        ELSE IF event.kind = "Scroll"
             THEN [d1 EXCEPT !.resp = "Block"]
             ELSE HandleBinding(d1, event)

handle_event(d, event) ==
    LET event_id == EventId(event)
        d1 == IF event_id \in DOMAIN subscriptions
              THEN Route(d, subscriptions[event_id], event)
              ELSE d
    IN  IF d1.resp = "Block"
        THEN d1
        ELSE IF event.kind = "Scroll"
             THEN [d1 EXCEPT !.resp = "Passthrough"]
             ELSE HandleBinding(d1, event)

\* is name among the strategies whose process was called
Called(called, name) == \E i \in DOMAIN called : called[i].name = name

\* the fields of the strategies that differ after the call
Changed(d) ==
    {f \in {"key_states", "last_release", "tasks", "timer_rx", "platform_handle"} :
        d.s1[f] # World[f]}
    \cup {f \in {"s2.platform_handle"} : d.s2.platform_handle # s2_handle}

DispatchRecord(event, d) ==
    [kind |-> event.kind, key |-> event.key, down |-> event.down, up |-> event.up,
     resp |-> d.resp, called |-> d.called, lookup |-> d.lookup,
     resolved |-> d.resolved, direct |-> d.direct, changed |-> Changed(d)]

\* the state after the configuration config was loaded; the clock of the
\* platform reads start
Loaded(config, start, focused) ==
    /\ now = start
    /\ diverts = config.diverts
    /\ key_states = EmptyMap
    /\ last_release = NoInstant
    /\ platform_handle = FALSE
    /\ timer_rx = << >>
    /\ tasks = EmptyMap
    /\ press_log = << >>
    /\ last_active = [at |-> NoInstant, by |-> "none", key |-> ""]
    /\ last = NoCall
    /\ phys = {}
    /\ window = focused
    /\ bindings = config.bindings
    /\ subscriptions = Subscriptions(config.order, config.diverts)
    /\ s2_handle = FALSE
    /\ disp = NoDispatch
    /\ probe = NoProbe

\* the dispatcher is followed for as long as a hold lasts
DispatchStart == MaxTime - InitialHoldMs

DispatchInit ==
    /\ \E config \in {ConfigX, ConfigZ} : Loaded(config, DispatchStart, WinA)
    /\ NoDriver
    /\ NoEmit
    /\ load = NoLoad
    /\ NoAux

\* one call of handle_event; the platform delivers the events one at a time
HandleEvent(event) ==
    \E d \in { handle_event(Dispatch, event) } :
        /\ Len(d.s1.press_log) <= MaxPresses
        /\ key_states' = d.s1.key_states
        /\ last_release' = d.s1.last_release
        /\ platform_handle' = d.s1.platform_handle
        /\ timer_rx' = d.s1.timer_rx
        /\ tasks' = d.s1.tasks
        /\ press_log' = d.s1.press_log
        /\ last_active' = d.s1.last_active
        /\ s2_handle' = d.s2.platform_handle
        /\ last' = IF Called(d.called, "s1")
                   THEN CallRecord(event, d.ctx, d.s1)
                   ELSE NoCall
        /\ disp' = DispatchRecord(event, d)
        /\ phys' = Physical(event)
        /\ UNCHANGED << now, diverts, window, bindings, subscriptions, probe >>

\* well-formed physical input: a key goes down when it is up, up when it is
\* down
DispatchKeyDown ==
    /\ \E k \in Keys \ phys : HandleEvent(KeyEvent(k, TRUE))
    /\ UNCHANGED rest_vars

DispatchKeyUp ==
    /\ \E k \in phys : HandleEvent(KeyEvent(k, FALSE))
    /\ UNCHANGED rest_vars

DispatchScroll ==
    /\ \E u \in BOOLEAN : HandleEvent(ScrollEvent(u))
    /\ UNCHANGED rest_vars

\* the user focuses another window
WindowChange ==
    /\ \E w \in Windows \ {window} : window' = w
    /\ press_log' = Retire
    /\ last' = NoCall
    /\ disp' = NoDispatch
    /\ UNCHANGED << now, diverts, key_states, last_release, platform_handle,
                    timer_rx, tasks, last_active, phys, bindings,
                    subscriptions, s2_handle, probe >>
    /\ UNCHANGED rest_vars

DispatchNext ==
    \/ DispatchKeyDown
    \/ DispatchKeyUp
    \/ DispatchScroll
    \/ WindowChange
    \/ TimerFires
    \/ TimerCancels
    \/ Tick

DispatchSpec == DispatchInit /\ [][DispatchNext]_vars

KeyDivertInit ==
    /\ Loaded(ConfigY, DispatchStart, WinA)
    /\ NoDriver
    /\ NoEmit
    /\ load = NoLoad
    /\ NoAux

KeyDivertSpec == KeyDivertInit /\ [][DispatchNext]_vars

(***************************************************************************)
(* resolve_action over bounded rule lists and windows                      *)
(***************************************************************************)
\* longest rule list of a conditional binding
MaxRules == 2

WinC == WindowInfo(<< "a", "b" >>, << "b" >>, << "b" >>)
WinD == WindowInfo(<< >>, << >>, << >>)
ProbeWindows == {WinA, WinB, WinC, WinD}

\* title = "a*", not_title = "*b"
TitleANotB ==
    WindowCondition(Some(<< "a", "*" >>), Some(<< "*", "b" >>), None, None, None, None)

\* class = "?", binary = "*"
ClassAny == WindowCondition(None, None, Some(<< "?" >>), None, Some(<< "*" >>), None)

ProbeConditions == {NoCondition, BinaryA, TitleB, NotClassB, TitleANotB, ClassAny}

ProbeActions == {"MediaNext", "VolumeDown", "Block"}

ProbeRules == {Rule(c, a) : c \in ProbeConditions, a \in ProbeActions}

RuleLists == UNION {[1..n -> ProbeRules] : n \in 0..MaxRules}

\* K1 bound to the rule list rules, without a strategy
ProbeConfig(rules) ==
    [bindings |-> ( "K1" :> Binding(Conditional(rules), None) ),
     diverts |-> (ScrollId(TRUE) :> "VolumeUp"),
     order |-> << "s1", "s2" >>]

ResolveInit ==
    /\ \E rules \in RuleLists, focused \in ProbeWindows :
        Loaded(ProbeConfig(rules), 0, focused)
    /\ NoDriver
    /\ NoEmit
    /\ load = NoLoad
    /\ NoAux

\* resolve_action is applied to the binding of K1 and the focused window,
\* and the key-down of K1 is dispatched
ResolveProbe ==
    LET resolved == ResolveRules(bindings["K1"].action.rules, window, 1)
        d == handle_event(Dispatch, KeyEvent("K1", TRUE))
    IN  /\ ~probe.done
        /\ probe' = [done |-> TRUE,
                     action |-> resolve_action(bindings, "K1", window),
                     consulted |-> resolved.consulted,
                     resp |-> d.resp]
        /\ disp' = DispatchRecord(KeyEvent("K1", TRUE), d)
        /\ phys' = Physical(KeyEvent("K1", TRUE))
        /\ UNCHANGED << now, diverts, key_states, last_release, platform_handle,
                        timer_rx, tasks, press_log, last_active, last, window,
                        bindings, subscriptions, s2_handle >>
        /\ UNCHANGED rest_vars

ResolveNext == ResolveProbe

ResolveSpec == ResolveInit /\ [][ResolveNext]_vars

(***************************************************************************)
(* The platform drivers (src/src/platform/linux.rs, windows.rs).  The      *)
(* handler passed to Platform::run is handle_event.  A handler call is     *)
(* under way from the step that takes the event to the step in which the   *)
(* call returns its response.                                              *)
(***************************************************************************)
\* number of events the environment produces
MaxEvents == 3

\* the keyboards grabbed at startup and the key each of them has
Devices == {"kbd1", "kbd2"}

KeyOf(dev) == IF dev = "kbd1" THEN "K1" ELSE "K2"

\* evdev::InputEvent
RawEvent(type, code, value) == [type |-> type, code |-> code, value |-> value]

\* convert_event
convert_event(ev) ==
    CASE ev.type = "KEY" ->
            IF ev.value = 2 THEN None ELSE Some(KeyEvent(ev.code, ev.value = 1))
      [] ev.type = "RELATIVE" ->
            IF ev.code = "REL_WHEEL" THEN Some(ScrollEvent(ev.value > 0)) ELSE None
      [] OTHER -> None

\* the XInput2 devices of the X server (xinput_xi_query_device): the master
\* pointer, a mouse, the XTEST pointer and the driver's own virtual device
XDevices ==
    { [deviceid |-> 2,  type_ |-> "MASTER_POINTER", name |-> "Virtual"],
      [deviceid |-> 4,  type_ |-> "SLAVE_POINTER",  name |-> "XTEST"],
      [deviceid |-> 10, type_ |-> "SLAVE_POINTER",  name |-> "mouse"],
      [deviceid |-> 11, type_ |-> "SLAVE_POINTER",  name |-> "rebinded"] }

\* variant of physical_pointer_ids: every slave pointer is whitelisted
physical_pointer_ids_AllSlaves ==
    { info.deviceid : info \in { x \in XDevices : x.type_ = "SLAVE_POINTER" } }

\* the whitelist built by setup_xinput2_scroll_grab
physical_pointer_ids ==
    { info.deviceid :
        info \in { x \in XDevices :
                     /\ x.type_ = "SLAVE_POINTER"
                     /\ x.name \notin {"Virtual", "XTEST", "rebinded"} } }

\* the match of the X11 thread on an event: Some(up) for a scroll press of a
\* whitelisted source
scroll_up(xev) ==
    CASE xev.type = "ButtonPress" /\ xev.detail = 4
            /\ xev.sourceid \in physical_pointer_ids -> Some(TRUE)
      [] xev.type = "ButtonPress" /\ xev.detail = 5
            /\ xev.sourceid \in physical_pointer_ids -> Some(FALSE)
      [] OTHER -> None

\* the X11 events the thread is sent: scroll presses of the mouse and of the
\* XTEST pointer, and the button release that ends a scroll click
XEvents ==
    { [type |-> "ButtonPress",   detail |-> 4, sourceid |-> 10],
      [type |-> "ButtonPress",   detail |-> 5, sourceid |-> 10],
      [type |-> "ButtonPress",   detail |-> 4, sourceid |-> 4],
      [type |-> "ButtonRelease", detail |-> 4, sourceid |-> 10] }

\* dwExtraInfo of the events the driver sends with SendInput
INJECTED_MARKER == 1380077124

\* the virtual-key code send_key / send_media map an action to
Vk(action) ==
    CASE action = "MediaPlayPause" -> "VK_MEDIA_PLAY_PAUSE"
      [] action = "MediaNext"     -> "VK_MEDIA_NEXT_TRACK"
      [] action = "MediaPrevious" -> "VK_MEDIA_PREV_TRACK"
      [] action = "MediaStop"     -> "VK_MEDIA_STOP"
      [] action = "BrowserBack"   -> "VK_BROWSER_BACK"
      [] action = "BrowserForward" -> "VK_BROWSER_FORWARD"
      [] action = "VolumeUp"      -> "VK_VOLUME_UP"
      [] action = "VolumeDown"    -> "VK_VOLUME_DOWN"
      [] action = "VolumeMute"    -> "VK_VOLUME_MUTE"
      [] OTHER                    -> "VK_OTHER"

\* the two INPUT records of send_key_press_sync
KeyPress(vk) ==
    << [msg |-> "WM_KEYDOWN", vk |-> vk, dwExtraInfo |-> INJECTED_MARKER],
       [msg |-> "WM_KEYUP",   vk |-> vk, dwExtraInfo |-> INJECTED_MARKER] >>

RECURSIVE KeyPresses(_)
KeyPresses(actions) ==
    IF actions = << >> THEN << >>
    ELSE KeyPress(Vk(Head(actions))) \o KeyPresses(Tail(actions))

\* the actions of the platform calls a handler call made: those of the
\* strategy, then the one handle_event executed itself
Requested(executed, direct) ==
    [i \in DOMAIN executed |-> executed[i].action] \o direct

\* the event a handler call is made for, with where it came from: n is the
\* position of the event in the order of arrival, origin and repeat are
\* history (what produced the event, and whether it is an auto-repeat tick)
Taken(event, n, origin, sourceid, repeat) ==
    [event |-> event, n |-> n, origin |-> origin, sourceid |-> sourceid,
     repeat |-> repeat]

\* the state when Platform::run enters its loop
DriverInit ==
    /\ \E focused \in {WinA, WinB} : Loaded(ConfigX, 0, focused)
    /\ platform \in {"linux", "windows"}
    /\ pressed = {}
    /\ senders = IF platform = "linux" THEN Devices ELSE {}
    /\ event_rx = << >>
    /\ scroll_rx = << >>
    /\ replay_rx = << >>
    /\ x11_thread \in IF platform = "linux" THEN {"absent", "drain"} ELSE {"absent"}
    /\ run_pc = "select"
    /\ in_flight = << >>
    /\ handled = << >>
    /\ apps = << >>
    /\ hook = [pc |-> IF platform = "windows" THEN "pump" ELSE "off",
               response |-> "None"]
    /\ arrived = 0
    /\ injected = << >>
    /\ NoEmit
    /\ load = NoLoad
    /\ NoAux

\* Linux, process_device_events: a keyboard produces an event and its task
\* sends it on the merged channel
DeviceEvent ==
    /\ platform = "linux"
    /\ arrived < MaxEvents
    /\ \E dev \in senders, type \in {"KEY", "SYNCHRONIZATION"}, value \in 0..2 :
        /\ type = "SYNCHRONIZATION" => value = 0
        /\ type = "KEY" => (value = 1 <=> KeyOf(dev) \notin pressed)
        /\ event_rx' = Append(event_rx,
                              [ev |-> RawEvent(type, KeyOf(dev), value),
                               dev |-> dev, n |-> arrived + 1])
        /\ pressed' = IF type # "KEY" \/ value = 2 THEN pressed
                      ELSE IF value = 1 THEN pressed \cup {KeyOf(dev)}
                      ELSE pressed \ {KeyOf(dev)}
    /\ arrived' = arrived + 1
    /\ UNCHANGED << platform, senders, scroll_rx, replay_rx, x11_thread, run_pc,
                    in_flight, handled, apps, hook, injected >>
    /\ UNCHANGED << core_vars, emit_vars, load, aux_vars >>

\* Linux: the stream of a keyboard fails or ends; its task returns and drops
\* its sender
DeviceFail ==
    /\ platform = "linux"
    /\ \E dev \in senders : senders' = senders \ {dev}
    /\ UNCHANGED << platform, pressed, event_rx, scroll_rx, replay_rx, x11_thread,
                    run_pc, in_flight, handled, apps, hook, arrived, injected >>
    /\ UNCHANGED << core_vars, emit_vars, load, aux_vars >>

\* Linux, X11 thread: wait_for_event returns an event; a scroll press of a
\* whitelisted source is sent to the run loop (the send fails, and the thread
\* ends, when the run loop has returned)
X11Event ==
    /\ x11_thread = "wait"
    /\ arrived < MaxEvents
    /\ \E xev \in XEvents :
        LET up == scroll_up(xev)
        IN  IF up = None
            THEN /\ x11_thread' = "drain"
                 /\ UNCHANGED scroll_rx
            ELSE IF run_pc = "returned"
            THEN /\ x11_thread' = "dead"
                 /\ UNCHANGED scroll_rx
            ELSE /\ x11_thread' = "drain"
                 /\ scroll_rx' = Append(scroll_rx,
                                        [up |-> up[1], n |-> arrived + 1,
                                         sourceid |-> xev.sourceid])
    /\ arrived' = arrived + 1
    /\ UNCHANGED << platform, pressed, senders, event_rx, replay_rx, run_pc,
                    in_flight, handled, apps, hook, injected >>
    /\ UNCHANGED << core_vars, emit_vars, load, aux_vars >>

\* Linux, X11 thread: wait_for_event returns an error and the thread ends
X11Error ==
    /\ x11_thread = "wait"
    /\ x11_thread' = "dead"
    /\ UNCHANGED << platform, pressed, senders, event_rx, scroll_rx, replay_rx,
                    run_pc, in_flight, handled, apps, hook, arrived, injected >>
    /\ UNCHANGED << core_vars, emit_vars, load, aux_vars >>

\* the scroll events a list of replay decisions lets through
RECURSIVE Replays(_)
Replays(decisions) ==
    IF decisions = << >> THEN << >>
    ELSE (IF Head(decisions).should_replay
          THEN << [kind |-> "Scroll", n |-> Head(decisions).n] >>
          ELSE << >>) \o Replays(Tail(decisions))

\* Linux, X11 thread: the try_recv loop at the top of the thread's loop
\* handles every decision that is queued, then the thread waits for the next
\* X11 event
X11Drain ==
    /\ x11_thread = "drain"
    /\ apps' = apps \o Replays(replay_rx)
    /\ replay_rx' = << >>
    /\ x11_thread' = "wait"
    /\ UNCHANGED << platform, pressed, senders, event_rx, scroll_rx, run_pc,
                    in_flight, handled, hook, arrived, injected >>
    /\ UNCHANGED << core_vars, emit_vars, load, aux_vars >>

\* variant of LinuxSelectKey: the select! is polled again while a handler
\* call is under way
LinuxSelectKey_Early ==
    /\ platform = "linux"
    /\ run_pc \in {"select", "handling"}
    /\ event_rx # << >>
    /\ event_rx' = Tail(event_rx)
    /\ LET item == Head(event_rx)
           input_event == convert_event(item.ev)
       IN  IF item.ev.type # "KEY" \/ input_event = None
           THEN UNCHANGED << run_pc, in_flight >>
           ELSE /\ run_pc' = "handling"
                /\ in_flight' = Append(in_flight,
                                       Taken(input_event[1], item.n, "evdev", 0,
                                             item.ev.value = 2))
    /\ UNCHANGED << platform, pressed, senders, scroll_rx, replay_rx, x11_thread,
                    handled, apps, hook, arrived, injected >>
    /\ UNCHANGED << core_vars, emit_vars, load, aux_vars >>

\* Linux, first branch of the select!: an event of the merged channel.  Events
\* that are not KEY events and events convert_event drops end the iteration.
LinuxSelectKey ==
    /\ platform = "linux"
    /\ run_pc = "select"
    /\ event_rx # << >>
    /\ event_rx' = Tail(event_rx)
    /\ LET item == Head(event_rx)
           input_event == convert_event(item.ev)
       IN  IF item.ev.type # "KEY" \/ input_event = None
           THEN UNCHANGED << run_pc, in_flight >>
           ELSE /\ run_pc' = "handling"
                /\ in_flight' = Append(in_flight,
                                       Taken(input_event[1], item.n, "evdev", 0,
                                             item.ev.value = 2))
    /\ UNCHANGED << platform, pressed, senders, scroll_rx, replay_rx, x11_thread,
                    handled, apps, hook, arrived, injected >>
    /\ UNCHANGED << core_vars, emit_vars, load, aux_vars >>

\* Linux, second branch of the select!: a scroll event of the X11 thread
LinuxSelectScroll ==
    /\ platform = "linux"
    /\ run_pc = "select"
    /\ x11_thread # "absent"
    /\ scroll_rx # << >>
    /\ scroll_rx' = Tail(scroll_rx)
    /\ run_pc' = "handling"
    /\ in_flight' = Append(in_flight,
                           Taken(ScrollEvent(Head(scroll_rx).up), Head(scroll_rx).n,
                                 "xinput", Head(scroll_rx).sourceid, FALSE))
    /\ UNCHANGED << platform, pressed, senders, event_rx, replay_rx, x11_thread,
                    handled, apps, hook, arrived, injected >>
    /\ UNCHANGED << core_vars, emit_vars, load, aux_vars >>

\* the first branch is disabled: recv returned None, the channel is empty
\* and no sender is left
KeysClosed == event_rx = << >> /\ senders = {}

\* the second branch is disabled: the scroll channel exists, is empty and
\* its sender (the X11 thread) is gone.  Without the scroll grab the branch
\* waits on std::future::pending and is never disabled.
ScrollClosed == x11_thread = "dead" /\ scroll_rx = << >>

\* Linux, else branch of the select!: every branch is disabled
LinuxSelectElse ==
    /\ platform = "linux"
    /\ run_pc = "select"
    /\ KeysClosed
    /\ ScrollClosed
    /\ run_pc' = "returned"
    /\ UNCHANGED << platform, pressed, senders, event_rx, scroll_rx, replay_rx,
                    x11_thread, in_flight, handled, apps, hook, arrived, injected >>
    /\ UNCHANGED << core_vars, emit_vars, load, aux_vars >>

\* Windows, keyboard_hook_proc called for a key event of a keyboard (a key
\* that is held sends further key-downs) or for the next event sent with
\* SendInput; process_hook_event sends the event and blocks on the response
WinKeyboardHook ==
    /\ hook.pc = "pump"
    /\ \E kb \in
          { [msg |-> IF down THEN "WM_KEYDOWN" ELSE "WM_KEYUP", vk |-> k,
             dwExtraInfo |-> 0] :
                k \in Keys, down \in BOOLEAN }
          \cup { injected[i] : i \in DOMAIN injected \cap {1} } :
        LET physical == kb.dwExtraInfo # INJECTED_MARKER
            is_keydown == kb.msg = "WM_KEYDOWN"
        IN  /\ physical => arrived < MaxEvents
            /\ physical /\ ~is_keydown => kb.vk \in pressed
            /\ arrived' = IF physical THEN arrived + 1 ELSE arrived
            /\ pressed' = IF ~physical THEN pressed
                          ELSE IF is_keydown THEN pressed \cup {kb.vk}
                          ELSE pressed \ {kb.vk}
            /\ injected' = IF physical THEN injected ELSE Tail(injected)
            /\ IF kb.dwExtraInfo = INJECTED_MARKER
               THEN /\ apps' = Append(apps, [kind |-> "Injected", n |-> 0])
                    /\ UNCHANGED << event_rx, hook >>
               ELSE /\ event_rx' =
                        Append(event_rx,
                               Taken(KeyEvent(kb.vk, is_keydown), arrived + 1,
                                     IF physical THEN "hook" ELSE "SendInput", 0,
                                     physical /\ is_keydown /\ kb.vk \in pressed))
                    /\ hook' = [hook EXCEPT !.pc = "blocked"]
                    /\ UNCHANGED apps
    /\ UNCHANGED << platform, senders, scroll_rx, replay_rx, x11_thread, run_pc,
                    in_flight, handled >>
    /\ UNCHANGED << core_vars, emit_vars, load, aux_vars >>

\* Windows, mouse_hook_proc called for a wheel message
WinMouseHook ==
    /\ hook.pc = "pump"
    /\ arrived < MaxEvents
    /\ \E wheel_delta \in {-120, 120} :
        event_rx' = Append(event_rx,
                           Taken(ScrollEvent(wheel_delta > 0), arrived + 1,
                                 "hook", 0, FALSE))
    /\ hook' = [hook EXCEPT !.pc = "blocked"]
    /\ arrived' = arrived + 1
    /\ UNCHANGED << platform, pressed, senders, scroll_rx, replay_rx, x11_thread,
                    run_pc, in_flight, handled, apps, injected >>
    /\ UNCHANGED << core_vars, emit_vars, load, aux_vars >>

\* Windows, the while let of Platform::run: the next event of the hook
\* channel
WinRecv ==
    /\ platform = "windows"
    /\ run_pc = "select"
    /\ event_rx # << >>
    /\ event_rx' = Tail(event_rx)
    /\ run_pc' = "handling"
    /\ in_flight' = Append(in_flight, Head(event_rx))
    /\ UNCHANGED << platform, pressed, senders, scroll_rx, replay_rx, x11_thread,
                    handled, apps, hook, arrived, injected >>
    /\ UNCHANGED << emit_vars, load, aux_vars >>
    /\ UNCHANGED core_vars

\* Windows, the hook procedure resumes with the response: LRESULT(1) blocks
\* the event, CallNextHookEx passes it on
WinHookReturn ==
    /\ hook.pc = "blocked"
    /\ hook.response # "None"
    /\ apps' = IF hook.response = "Passthrough"
               THEN Append(apps, [kind |-> handled[Len(handled)].event.kind,
                                  n |-> handled[Len(handled)].n])
               ELSE apps
    /\ hook' = [pc |-> "pump", response |-> "None"]
    /\ UNCHANGED << platform, pressed, senders, event_rx, scroll_rx, replay_rx,
                    x11_thread, run_pc, in_flight, handled, arrived, injected >>
    /\ UNCHANGED << core_vars, emit_vars, load, aux_vars >>

\* what the driver does with the response of a handler call (variant: a
\* keyboard event is re-injected whatever the response is)
Respond_Always(item, response) ==
    /\ apps' = IF platform = "linux" /\ item.origin = "evdev"
               THEN Append(apps, [kind |-> "Key", n |-> item.n])
               ELSE apps
    /\ replay_rx' = IF platform = "linux" /\ item.origin # "evdev"
                       /\ x11_thread # "dead"
                    THEN Append(replay_rx,
                                [should_replay |-> response = "Passthrough",
                                 n |-> item.n])
                    ELSE replay_rx
    /\ hook' = IF platform = "windows"
               THEN [hook EXCEPT !.response = response]
               ELSE hook

\* what the driver does with the response of a handler call.  Linux keyboard
\* event: re-injected through the virtual device if Passthrough.  Linux scroll
\* event: the replay decision is sent to the X11 thread (the send fails when
\* the thread is gone).  Windows: the response is sent to the hook thread.
Respond(item, response) ==
    /\ apps' = IF platform = "linux" /\ item.origin = "evdev"
                  /\ response = "Passthrough"
               THEN Append(apps, [kind |-> "Key", n |-> item.n])
               ELSE apps
    /\ replay_rx' = IF platform = "linux" /\ item.origin # "evdev"
                       /\ x11_thread # "dead"
                    THEN Append(replay_rx,
                                [should_replay |-> response = "Passthrough",
                                 n |-> item.n])
                    ELSE replay_rx
    /\ hook' = IF platform = "windows"
               THEN [hook EXCEPT !.response = response]
               ELSE hook

\* the handler call returns: handle_event has run for the event, the driver
\* acts on the response and goes back to waiting for events.  On Windows the
\* actions executed in the call are sent as key presses with SendInput.
HandlerReturn ==
    /\ run_pc = "handling"
    /\ in_flight # << >>
    /\ LET item == Head(in_flight)
       IN  /\ HandleEvent(item.event)
           /\ handled' = Append(handled,
                                [event |-> item.event, n |-> item.n,
                                 origin |-> item.origin,
                                 sourceid |-> item.sourceid,
                                 repeat |-> item.repeat,
                                 resp |-> disp'.resp])
           /\ Respond(item, disp'.resp)
           /\ injected' = IF platform = "windows"
                          THEN injected
                               \o KeyPresses(Requested(last'.executed, disp'.direct))
                          ELSE injected
    /\ in_flight' = Tail(in_flight)
    /\ run_pc' = "select"
    /\ UNCHANGED << platform, pressed, senders, event_rx, scroll_rx, x11_thread,
                    arrived >>
    /\ UNCHANGED << emit_vars, load, aux_vars >>

DriverNext ==
    \/ DeviceEvent
    \/ DeviceFail
    \/ X11Event
    \/ X11Error
    \/ X11Drain
    \/ LinuxSelectKey
    \/ LinuxSelectScroll
    \/ LinuxSelectElse
    \/ WinKeyboardHook
    \/ WinMouseHook
    \/ WinRecv
    \/ WinHookReturn
    \/ HandlerReturn

DriverSpec == DriverInit /\ [][DriverNext]_vars

\* the runtime and the threads keep running: a task that can be polled is
\* polled, a thread that can take a step takes it.  The environment (the
\* keyboards, the X server) owes nothing.
DriverFairSpec ==
    /\ DriverSpec
    /\ WF_vars(X11Drain)
    /\ WF_vars(LinuxSelectKey)
    /\ WF_vars(LinuxSelectScroll)
    /\ WF_vars(LinuxSelectElse)
    /\ WF_vars(WinRecv)
    /\ WF_vars(WinHookReturn)
    /\ WF_vars(HandlerReturn)

(***************************************************************************)
(* Side effects requested through the platform handle                      *)
(***************************************************************************)

\* bound: the number of send_key / send_media calls of one behaviour
MaxRequests == 3

\* the actions Action::execute turns into a platform call
SendActions ==
    { "MediaPlayPause", "MediaNext", "VolumeUp", "VolumeMute",
      "BrowserBack", "BrowserForward" }

\* Action::execute: the platform method that is called
PlatformCall(action) ==
    IF action \in { "BrowserBack", "BrowserForward" } THEN "send_key"
                                                         ELSE "send_media"

\* create_key_combo: each key event is followed by a SYN_REPORT
RECURSIVE create_key_combo(_)
create_key_combo(keys) ==
    IF keys = << >> THEN << >>
    ELSE << [type |-> "KEY", code |-> keys[1][1],
             value |-> IF keys[1][2] THEN 1 ELSE 0],
            [type |-> "SYN", code |-> "SYN_REPORT", value |-> 0] >>
         \o create_key_combo(Tail(keys))

\* Linux send_key: the key combination of a synthetic key
Combo(key) ==
    IF key = "BrowserBack"
    THEN create_key_combo(<< << "KEY_LEFTALT", TRUE >>, << "KEY_LEFT", TRUE >>,
                             << "KEY_LEFT", FALSE >>, << "KEY_LEFTALT", FALSE >> >>)
    ELSE create_key_combo(<< << "KEY_LEFTALT", TRUE >>, << "KEY_RIGHT", TRUE >>,
                             << "KEY_RIGHT", FALSE >>, << "KEY_LEFTALT", FALSE >> >>)

\* what reaches the OS for request n: the events evs, in this order
Effects(n, evs) == [i \in DOMAIN evs |-> [n |-> n, ev |-> evs[i]]]

\* the index of the spawned task that the runtime polls next: tasks are
\* polled for the first time in the order they were spawned
NextSpawned ==
    { i \in DOMAIN emit_tasks :
        /\ emit_tasks[i].pc = "spawned"
        /\ \A j \in 1..(i - 1) : emit_tasks[j].pc # "spawned" }

EmitInit ==
    /\ Loaded(ConfigX, 0, WinA)
    /\ platform \in { "linux", "windows" }
    /\ pressed = {}
    /\ senders = {}
    /\ event_rx = << >>
    /\ scroll_rx = << >>
    /\ replay_rx = << >>
    /\ x11_thread = "absent"
    /\ run_pc = "off"
    /\ in_flight = << >>
    /\ handled = << >>
    /\ apps = << >>
    /\ hook = [pc |-> "off", response |-> "None"]
    /\ arrived = 0
    /\ injected = << >>
    /\ NoEmit
    /\ load = NoLoad
    /\ NoAux

\* Action::execute -> send_key / send_media: the call spawns a task (Linux)
\* or a thread (Windows) and returns
Issue(action) ==
    /\ Len(issued) < MaxRequests
    /\ issued' = Append(issued, [n |-> Len(issued) + 1,
                                 call |-> PlatformCall(action),
                                 arg |-> action])
    /\ emit_tasks' = Append(emit_tasks, [pc |-> "spawned",
                                         call |-> PlatformCall(action),
                                         arg |-> action])
    /\ UNCHANGED << effects, load, aux_vars >>
    /\ UNCHANGED << core_vars, driver_vars >>

\* Linux, the task of send_key: it locks the device and emits the whole
\* combination with one emit call, without an await
LinuxEmitKey ==
    /\ platform = "linux"
    /\ \E i \in NextSpawned :
        /\ emit_tasks[i].call = "send_key"
        /\ effects' = effects \o Effects(i, Combo(emit_tasks[i].arg))
        /\ emit_tasks' = [emit_tasks EXCEPT ![i].pc = "done"]
    /\ UNCHANGED << issued, load, aux_vars >>
    /\ UNCHANGED << core_vars, driver_vars >>

\* Linux, the task of send_media up to its first await: pactl is started
\* (volume commands) or the D-Bus calls begin (MPRIS commands)
LinuxMediaStart ==
    /\ platform = "linux"
    /\ \E i \in NextSpawned :
        /\ emit_tasks[i].call = "send_media"
        /\ emit_tasks' = [emit_tasks EXCEPT ![i].pc = "awaiting"]
    /\ UNCHANGED << issued, effects, load, aux_vars >>
    /\ UNCHANGED << core_vars, driver_vars >>

\* Linux: the pactl process or the MPRIS method call of a media command
\* takes effect; the commands under way complete in any order
LinuxMediaDone ==
    /\ platform = "linux"
    /\ \E i \in DOMAIN emit_tasks :
        /\ emit_tasks[i].pc = "awaiting"
        /\ effects' = effects \o
               Effects(i, << [type |-> "MEDIA", code |-> emit_tasks[i].arg,
                              value |-> 0] >>)
        /\ emit_tasks' = [emit_tasks EXCEPT ![i].pc = "done"]
    /\ UNCHANGED << issued, load, aux_vars >>
    /\ UNCHANGED << core_vars, driver_vars >>

\* Windows: one of the threads of send_key_press runs send_key_press_sync;
\* SendInput inserts the key-down and the key-up together
WinSendInput ==
    /\ platform = "windows"
    /\ \E i \in DOMAIN emit_tasks :
        /\ emit_tasks[i].pc = "spawned"
        /\ effects' = effects \o Effects(i, KeyPress(Vk(emit_tasks[i].arg)))
        /\ emit_tasks' = [emit_tasks EXCEPT ![i].pc = "done"]
    /\ UNCHANGED << issued, load, aux_vars >>
    /\ UNCHANGED << core_vars, driver_vars >>

EmitNext ==
    \/ \E action \in SendActions : Issue(action)
    \/ LinuxEmitKey
    \/ LinuxMediaStart
    \/ LinuxMediaDone
    \/ WinSendInput

EmitSpec == EmitInit /\ [][EmitNext]_vars

(***************************************************************************)
(* The config loader                                                       *)
(***************************************************************************)

\* bound: the number of [bindings.*] tables of a config file
MaxBindings == 3

\* the digits of from_str_radix, lower and upper case
LowerDigits ==
    << "0", "1", "2", "3", "4", "5", "6", "7", "8", "9",
       "a", "b", "c", "d", "e", "f" >>

UpperDigits ==
    << "0", "1", "2", "3", "4", "5", "6", "7", "8", "9",
       "A", "B", "C", "D", "E", "F" >>

\* char::to_digit: the value of digit c in the given radix, -1 if it has none
to_digit(c, radix) ==
    IF \E v \in 1..radix : LowerDigits[v] = c \/ UpperDigits[v] = c
    THEN (CHOOSE v \in 1..radix : LowerDigits[v] = c \/ UpperDigits[v] = c) - 1
    ELSE -1

\* u32::from_str_radix on a sequence of characters: -1 stands for Err (no
\* digit, a character that is no digit).  The specifiers of KeySpecs have
\* at most three digits, so that no value exceeds u32::MAX.
RECURSIVE radix_value(_, _, _)
radix_value(chars, radix, acc) ==
    IF chars = << >> THEN acc
    ELSE IF to_digit(chars[1], radix) < 0 THEN -1
    ELSE radix_value(Tail(chars), radix, acc * radix + to_digit(chars[1], radix))

from_str_radix(chars, radix) ==
    IF chars = << >> THEN -1 ELSE radix_value(chars, radix, 0)

\* str::to_lowercase, character by character
to_lowercase(chars) ==
    [i \in DOMAIN chars |->
        IF \E v \in DOMAIN UpperDigits : UpperDigits[v] = chars[i]
        THEN LowerDigits[CHOOSE v \in DOMAIN UpperDigits : UpperDigits[v] = chars[i]]
        ELSE chars[i]]

\* build_name_map (unix): the names of evdev key 183, KEY_F13
platform_key_from_name(name) ==
    IF to_lowercase(name) \in { << "f", "1", "3" >>,
                                << "k", "e", "y", "_", "f", "1", "3" >> }
    THEN 183
    ELSE -1

\* parse_key_specifier: hex literal, then decimal number, then key name;
\* -1 stands for None
parse_key_specifier(s) ==
    IF /\ Len(s) >= 2
       /\ s[1] = "0"
       /\ s[2] \in { "x", "X" }
       /\ from_str_radix(SubSeq(s, 3, Len(s)), 16) >= 0
    THEN from_str_radix(SubSeq(s, 3, Len(s)), 16)
    ELSE IF /\ \A i \in DOMAIN s : to_digit(s[i], 10) >= 0
            /\ from_str_radix(s, 10) >= 0
    THEN from_str_radix(s, 10)
    ELSE platform_key_from_name(s)

from_config_str(s) == parse_key_specifier(s)

\* the key specifiers of the configs that are loaded
KeySpecs ==
    { << "0", "x", "7", "C" >>, << "1", "2", "4" >>, << "F", "1", "3" >>,
      << "1", "8", "3" >>, << "n", "o", "k", "e", "y" >> }

\* the [strategies] section of the configs defines one strategy
StrategyNames == { "hold" }

\* the strategy field of a binding: absent, a defined name, an undefined name
StrategyRefs == { "None", "hold", "nope" }

\* the text of one binding, one token per byte:
\*     [bindings.KEY]
\*     action = "block"
\*     strategy = "NAME"        (if the binding names a strategy)
\*     (empty line)
BindingText(b) ==
    << "[bindings.", "KEY", "]", "\n", "action", "\n" >>
    \o (IF b.strategy = "None" THEN << >> ELSE << "strategy", "NAME", "\n" >>)
    \o << "\n" >>

RECURSIVE SourceContent(_)
SourceContent(bs) ==
    IF bs = << >> THEN << >>
    ELSE BindingText(bs[1]) \o SourceContent(Tail(bs))

\* config.bindings as parse_bindings builds it, listed in source order: the
\* key with its span, the strategy reference with its span
ParsedBindings(bs) ==
    [i \in DOMAIN bs |->
        LET at == Len(SourceContent(SubSeq(bs, 1, i - 1)))
        IN  [key |-> bs[i].key,
             key_span |-> [start |-> at + 1, end |-> at + 2],
             strategy |-> bs[i].strategy,
             strategy_span |-> [start |-> at + 7, end |-> at + 8]]]

\* byte_offset_to_line: 1 + the number of newlines before the offset
byte_offset_to_line(content, offset) ==
    LET upto == IF offset < Len(content) THEN offset ELSE Len(content)
    IN  Cardinality({ p \in 1..upto : content[p] = "\n" }) + 1

\* ConfigIssue::unknown_key
unknown_key(span) ==
    [span |-> span, label |-> "not a valid key name or code", original_line |-> 0]

\* ConfigIssue::undefined_strategy
undefined_strategy(span) ==
    [span |-> span, label |-> "strategy not found", original_line |-> 0]

\* ConfigIssue::duplicate_binding: "first defined at line {original_line}"
duplicate_binding(span, original_span, source_content) ==
    [span |-> span, label |-> "duplicate",
     original_line |-> byte_offset_to_line(source_content, original_span.start)]

\* seen_keys.get(&key_code)
SeenSpan(seen_keys, key_code) ==
    (CHOOSE e \in seen_keys : e.code = key_code).span

\* build_runtime: the loop over config.bindings, a HashMap, in the order
\* its iterator yields the entries; the issues pushed
RECURSIVE build_runtime(_, _, _, _, _)
build_runtime(config_bindings, order, source_content, seen_keys, issues) ==
    IF order = << >> THEN issues
    ELSE
        LET b == config_bindings[order[1]]
            key_code == from_config_str(b.key)
        IN  IF key_code < 0
            THEN build_runtime(config_bindings, Tail(order), source_content, seen_keys,
                     Append(issues, unknown_key(b.key_span)))
            ELSE IF \E e \in seen_keys : e.code = key_code
            THEN build_runtime(config_bindings, Tail(order), source_content, seen_keys,
                     Append(issues, duplicate_binding(b.key_span,
                                SeenSpan(seen_keys, key_code), source_content)))
            ELSE build_runtime(config_bindings, Tail(order), source_content,
                     seen_keys \cup { [code |-> key_code, span |-> b.key_span] },
                     IF b.strategy # "None" /\ b.strategy \notin StrategyNames
                     THEN Append(issues, undefined_strategy(b.strategy_span))
                     ELSE issues)

\* no RuntimeConfig
NoRuntime == [bindings |-> {}, strategies |-> {}]

\* the bindings map that the loop of build_runtime fills: a binding is
\* inserted under its key code unless its key is unknown or its key code was
\* seen; insert replaces the entry of the key code
RECURSIVE runtime_bindings(_, _, _, _)
runtime_bindings(config_bindings, order, seen_codes, inserted) ==
    IF order = << >> THEN inserted
    ELSE
        LET b == config_bindings[order[1]]
            key_code == from_config_str(b.key)
        IN  IF key_code < 0 \/ key_code \in seen_codes
            THEN runtime_bindings(config_bindings, Tail(order), seen_codes, inserted)
            ELSE runtime_bindings(config_bindings, Tail(order),
                     seen_codes \cup { key_code },
                     { e \in inserted : e.code # key_code }
                     \cup { [code |-> key_code, key |-> b.key,
                             strategy |-> b.strategy] })

\* the RuntimeConfig build_runtime returns: the bindings, and one strategy
\* instance for each strategy of the config
RuntimeOf(config_bindings, order) ==
    [bindings |-> runtime_bindings(config_bindings, order, {}, {}),
     strategies |-> StrategyNames]

\* DeTable::parse accepts the source: no table is defined twice
DeTableParses(config_bindings) ==
    \A i, j \in DOMAIN config_bindings :
        config_bindings[i].key = config_bindings[j].key => i = j

\* issues.sort_by_key(|i| i.span.start): a stable sort
RECURSIVE sort_by_key(_)
sort_by_key(issues) ==
    IF issues = << >> THEN << >>
    ELSE
        LET first == CHOOSE i \in DOMAIN issues :
                        \A j \in DOMAIN issues :
                            \/ issues[i].span.start < issues[j].span.start
                            \/ issues[i].span.start = issues[j].span.start /\ i <= j
        IN  << issues[first] >>
            \o sort_by_key([k \in 1..(Len(issues) - 1) |->
                               IF k < first THEN issues[k] ELSE issues[k + 1]])

\* the orders in which a HashMap of n entries can be iterated
IterationOrders(n) ==
    { o \in [1..n -> 1..n] : \A i, j \in 1..n : o[i] = o[j] => i = j }

\* the binding tables of a config file: at most MaxBindings tables, no two
\* with the same key text (TOML rejects a table that is defined twice)
BindingLists ==
    UNION { { bs \in [1..n -> [key : KeySpecs, strategy : StrategyRefs]] :
                \A i, j \in 1..n : bs[i].key = bs[j].key => i = j }
            : n \in 1..MaxBindings }

LoadInit ==
    /\ Loaded(ConfigX, 0, WinA)
    /\ NoDriver
    /\ NoEmit
    /\ \E bs \in BindingLists :
        \E order \in IterationOrders(Len(bs)) :
            load = [done |-> FALSE,
                    result |-> "None",
                    source_content |-> SourceContent(bs),
                    bindings |-> ParsedBindings(bs),
                    order |-> order,
                    issues |-> << >>,
                    runtime |-> NoRuntime]
    /\ NoAux

\* variant of parse_and_build: the runtime config is returned whether or not
\* issues were recorded
parse_and_build_IgnoreIssues ==
    /\ ~load.done
    /\ load' = [load EXCEPT !.done = TRUE,
                            !.result = "Ok",
                            !.issues = sort_by_key(
                                build_runtime(load.bindings, load.order,
                                              load.source_content, {}, << >>)),
                            !.runtime = RuntimeOf(load.bindings, load.order)]
    /\ UNCHANGED << core_vars, driver_vars, emit_vars, aux_vars >>

\* parse_and_build: a source that DeTable::parse rejects gives the parse
\* error, before anything is validated; otherwise build_runtime validates the
\* parsed config, and the result is the runtime config if no issue was
\* recorded, the validation error with the issues sorted if there are issues
parse_and_build ==
    /\ ~load.done
    /\ IF ~DeTableParses(load.bindings)
       THEN load' = [load EXCEPT !.done = TRUE, !.result = "ParseErr"]
       ELSE \E issues \in { build_runtime(load.bindings, load.order,
                                           load.source_content, {}, << >>) } :
               load' = [load EXCEPT
                   !.done = TRUE,
                   !.result = IF issues = << >> THEN "Ok" ELSE "Err",
                   !.issues = sort_by_key(issues),
                   !.runtime = IF issues = << >>
                               THEN RuntimeOf(load.bindings, load.order)
                               ELSE NoRuntime]
    /\ UNCHANGED << core_vars, driver_vars, emit_vars, aux_vars >>

LoadNext == parse_and_build

LoadSpec == LoadInit /\ [][LoadNext]_vars

(***************************************************************************)
(* Vocabulary of the properties                                            *)
(***************************************************************************)
\* number of times the bound action was executed for press p
ExecCount(p) == press_log[p].execs

\* the gate as the design states it, over the key states ks and the
\* last-release instant lr, at the current instant
GateOpenAt(ks, lr) ==
    \/ \E k \in DOMAIN ks : ks[k].st = "Active"
    \/ lr # NoInstant /\ now - lr < RepeatWindowMs

\* the most recent step was a process call for a key-down / key-up of k
LastDown(k) == last.kind = "Key" /\ last.down /\ last.key = k
LastUp(k) == last.kind = "Key" /\ ~last.down /\ last.key = k

\* the most recent step was a process call for a divert event: an event
\* that process hands to handle_divert (a scroll event) and whose id is in
\* the diverts map
LastDivert == last.kind = "Scroll" /\ ScrollId(last.up) \in DOMAIN diverts

\* keys held (Holding, Active or Diverted) in the key states ks
Held(ks) == DOMAIN ks

(***************************************************************************)
(* C1                                                                      *)
(***************************************************************************)
\* C1: for a press that entered Holding (gate closed) and for which neither a
\* key-up nor a divert was processed before its hold timer fired, the bound
\* action has been executed exactly once, in every later state: after the
\* promotion to Active, after further key-downs of the held key and after
\* its key-up.
C1_HoldActivatesOnce ==
    \A p \in DOMAIN press_log :
        ( /\ press_log[p].mode = "Holding"
          /\ press_log[p].fired
          /\ press_log[p].cancelled_by \notin {"key_up", "divert"} )
        => ExecCount(p) = 1

\* a held press whose timer fired, that was promoted and has been released
\* from Active
C1_Witness ==
    \E p \in DOMAIN press_log :
        /\ press_log[p].mode = "Holding"
        /\ press_log[p].fired
        /\ press_log[p].cancelled_by = "none"
        /\ LastUp(press_log[p].key)
        /\ StateOf(last.pre, press_log[p].key) = "Active"
        /\ ExecCount(p) = 1

(***************************************************************************)
(* C2                                                                      *)
(***************************************************************************)
\* C2: when the key-up of a key is processed while the key is Holding, the
\* hold timer is cancelled, the key returns to Idle, and the bound action is
\* never executed for that press, whatever the interleaving of the timer
\* task with the key-up and with later events.
C2_EarlyReleaseNeverExecutes ==
    /\ \A k \in Keys :
          (LastUp(k) /\ StateOf(last.pre, k) = "Holding")
          => /\ k \notin DOMAIN key_states
             /\ last.pre[k].press \in last.cancelled
    /\ \A p \in DOMAIN press_log :
          press_log[p].cancelled_by = "key_up" => ExecCount(p) = 0

(***************************************************************************)
(* C3                                                                      *)
(***************************************************************************)
\* C3: a key-down of an Idle key processed while the gate is open puts the
\* key in Active, executes the action bound to the key exactly once within
\* the call, starts no hold timer and returns Block; for the key that
\* opened the gate and for its siblings alike.
C3_OpenGateActivates ==
    \A k \in Keys :
        ( /\ LastDown(k)
          /\ StateOf(last.pre, k) = "Idle"
          /\ GateOpenAt(last.pre, last.pre_lr) )
        => /\ StateOf(key_states, k) = "Active"
           /\ Len(last.executed) = 1
           /\ last.executed[1].action = BoundAction(k)
           /\ ExecCount(key_states[k].press) = 1
           /\ last.spawned = 0
           /\ DOMAIN tasks = last.pre_tasks
           /\ last.resp = "Block"

\* K1 opened the gate and was released; the sibling K2 goes down inside the
\* repeat window and is activated at once
C3_Witness ==
    /\ LastDown("K2")
    /\ StateOf(last.pre, "K2") = "Idle"
    /\ last_active.key = "K1"
    /\ last_active.by = "key_up"
    /\ "K1" \notin DOMAIN key_states
    /\ press_log[key_states["K2"].press].mode = "Direct"
    /\ StateOf(key_states, "K2") = "Active"
    /\ Len(last.executed) = 1

(***************************************************************************)
(* C4                                                                      *)
(***************************************************************************)
\* C4: in every reachable state is_gate_open is true exactly if some key is
\* Active or a last-release instant is recorded and less than
\* repeat_window_ms has elapsed since it; and that is the value every
\* key_down has seen.
C4_GateOpenIff ==
    /\ is_gate_open(World) <=> GateOpenAt(key_states, last_release)
    /\ (last.kind = "Key" /\ last.down)
          => (last.gate <=> GateOpenAt(last.pre, last.pre_lr))
    /\ (press_log = << >>) => ~is_gate_open(World)

\* a key-down finds the gate closed again once the repeat window that an
\* earlier release opened has elapsed
C4_Witness ==
    /\ last.kind = "Key" /\ last.down
    /\ last.pre_lr # NoInstant
    /\ now - last.pre_lr >= RepeatWindowMs
    /\ ~last.gate
    /\ ~is_gate_open(World)

(***************************************************************************)
(* C5                                                                      *)
(***************************************************************************)
\* no key has been Active within the last repeat_window_ms
NoRecentActivation ==
    \/ last_active.at = NoInstant
    \/ now - last_active.at >= RepeatWindowMs

\* C5: a process call writes last_release only if it is the key-up of an
\* Active key or a divert that finds an Active key; every other call leaves
\* it as it was.  Hence a key-down of an Idle key, with no key Active and no
\* activation within the repeat window, enters Holding with a fresh timer
\* and executes nothing.
C5_LastReleaseOnlyLeavingActive ==
    /\ (last.kind # "None" /\ (last.wrote_lr \/ last_release # last.pre_lr))
          => \/ \E k \in Keys : LastUp(k) /\ StateOf(last.pre, k) = "Active"
             \/ LastDivert /\ \E k \in DOMAIN last.pre : last.pre[k].st = "Active"
    /\ \A k \in Keys :
          ( /\ LastDown(k)
            /\ StateOf(last.pre, k) = "Idle"
            /\ \A j \in DOMAIN last.pre : last.pre[j].st # "Active"
            /\ NoRecentActivation )
          => /\ StateOf(key_states, k) = "Holding"
             /\ last.spawned = key_states[k].press
             /\ last.spawned \in DOMAIN tasks
             /\ last.executed = << >>

\* the first press was released before its hold timer could fire; the next
\* press of K1 enters Holding again
C5_Witness ==
    /\ Len(press_log) = 2
    /\ press_log[1] = EndedPress
    /\ now < InitialHoldMs
    /\ last_active.at = NoInstant
    /\ LastDown("K1")
    /\ last.spawned = 2
    /\ StateOf(key_states, "K1") = "Holding"
    /\ last_release = NoInstant

C7_DivertFromHoldingNeverExecutes ==
    /\ LastDivert
          => /\ \A k \in DOMAIN last.pre :
                    last.pre[k].st = "Holding" => last.pre[k].press \in last.cancelled
             /\ (\A k \in DOMAIN last.pre : last.pre[k].st # "Active")
                    => (last_release = last.pre_lr /\ ~last.wrote_lr)
    /\ \A p \in DOMAIN press_log :
          press_log[p].cancelled_by = "divert" => ExecCount(p) = 0

C9_InertDivert ==
    (LastDivert /\ last.before = EmptyMap)
    => /\ last.resp = "Passthrough"
       /\ last.executed = << >>
       /\ last.cancelled = {}
       /\ key_states = EmptyMap
       /\ last_release = last.pre_lr
       /\ ~last.wrote_lr

\* a configured scroll event passed through after all keys were released
C9_Witness ==
    /\ LastDivert
    /\ last.before = EmptyMap
    /\ last.resp = "Passthrough"
    /\ press_log # << >>
    /\ last_release # NoInstant

(***************************************************************************)
(* C10                                                                     *)
(***************************************************************************)
\* what a step may do to a Diverted key
C10_Step ==
    \A k \in Keys :
        StateOf(key_states, k) = "Diverted"
        => \/ StateOf(key_states', k) = "Diverted"
           \/ /\ last'.kind = "Key" /\ ~last'.down /\ last'.key = k
              /\ k \notin DOMAIN key_states'
              /\ last_release' = last_release
              /\ ~last'.wrote_lr

\* what a divert does when every held key is already Diverted
C10_State ==
    ( /\ LastDivert
      /\ last.before # EmptyMap
      /\ \A k \in DOMAIN last.before : last.before[k].st = "Diverted" )
    => /\ last.resp = "Block"
       /\ last_release = last.pre_lr
       /\ ~last.wrote_lr
       /\ key_states = last.before

\* C10: a Diverted key leaves Diverted only by its own key-up, which removes
\* its entry and leaves last_release alone; key-downs, diverts and timer
\* steps leave it Diverted; a divert processed while every held key is
\* already Diverted returns Block and does not record last_release again.
C10_DivertedUntilKeyUp == [][C10_Step]_vars /\ []C10_State

\* a second divert arrives while the only held key is Diverted, after the
\* first divert had stamped last_release at an earlier instant
C10_Witness ==
    /\ LastDivert
    /\ last.before # EmptyMap
    /\ \A k \in DOMAIN last.before : last.before[k].st = "Diverted"
    /\ last_release # NoInstant
    /\ last_release < now
    /\ last_active.by = "divert"

(***************************************************************************)
(* C11                                                                     *)
(***************************************************************************)
\* the most recent step was a process call whose event went to handle_divert
\* with an id that has no entry in the diverts map
LastUnknownDivert ==
    last.kind = "Scroll" /\ ScrollId(last.up) \notin DOMAIN diverts

\* C11: a divert lookup for an event id without an entry in the diverts map
\* returns Passthrough, also when keys are held; it executes nothing, cancels
\* no hold timer and leaves every key state and last_release as they were
\* when the lookup was made.
C11_UnknownDivertPassesThrough ==
    LastUnknownDivert
    => /\ last.resp = "Passthrough"
       /\ last.executed = << >>
       /\ \A k \in DOMAIN last.pre :
              (last.pre[k].st = "Holding" /\ last.pre[k].press \in DOMAIN tasks)
              => ~tasks[last.pre[k].press].cancelled
       /\ key_states = last.pre
       /\ last_release = last.pre_lr
       /\ ~last.wrote_lr

\* an unconfigured scroll event arrives while one key is Holding with its
\* timer pending and another key is Active
C11_Witness ==
    /\ LastUnknownDivert
    /\ \E k1, k2 \in DOMAIN key_states :
          /\ key_states[k1].st = "Holding"
          /\ key_states[k1].press \in DOMAIN tasks
          /\ key_states[k2].st = "Active"
    /\ last.resp = "Passthrough"

(***************************************************************************)
(* C13                                                                     *)
(***************************************************************************)
\* C13: a key whose down and up transitions processed so far are equal in
\* number (it is physically up: the last transition processed for it, if
\* any, was an up) has no entry in the state map, and no entry of the map
\* holds an Idle value.
C13_IdleIsAbsent ==
    /\ \A k \in Keys : k \notin phys => k \notin DOMAIN key_states
    /\ \A k \in DOMAIN key_states :
          key_states[k].st \in {"Holding", "Active", "Diverted"}

\* the key-up of a key that was Holding, Active or Diverted was just processed
\* and the key is back to having no entry
C13_WitnessFrom(st) ==
    \E k \in Keys :
        /\ LastUp(k)
        /\ k \in DOMAIN last.pre /\ last.pre[k].st = st
        /\ k \notin phys
        /\ k \notin DOMAIN key_states

C13_Witness ==
    /\ C13_WitnessFrom("Active")
    /\ \E p \in DOMAIN press_log : press_log[p].mode = "Ended"

(***************************************************************************)
(* C12                                                                     *)
(***************************************************************************)
\* the most recent step was a handle_event call for a key event whose id is
\* in the diverts map of "s1" and that was routed to "s1"
LastKeyDivert ==
    /\ disp.kind = "Key"
    /\ KeyId(disp.key) \in DOMAIN diverts
    /\ Called(disp.called, "s1")

\* C12: a key event whose id is in the diverts map of a strategy and that is
\* routed to the strategy through its subscription is a divert event like a
\* scroll divert: with no key held it returns Passthrough and creates no
\* key state; with a key held every held key ends Diverted and the mapped
\* divert action is executed.
C12_KeyDivertIsDivert ==
    LastKeyDivert
    => IF Held(last.pre) = {}
       THEN /\ last.resp = "Passthrough"
            /\ key_states = last.pre
       ELSE /\ \A k \in DOMAIN last.pre :
                  k \in DOMAIN key_states /\ key_states[k].st = "Diverted"
            /\ \E i \in DOMAIN last.executed :
                  /\ last.executed[i].action = diverts[KeyId(disp.key)]
                  /\ last.executed[i].src = "divert"

(***************************************************************************)
(* C14                                                                     *)
(***************************************************************************)
\* C14: with alternating down/up input per key dispatched by handle_event
\* and a focused window that may change between events, a key that is not
\* physically held (its key-up was dispatched) has no entry in the state map
\* of the strategy, no hold timer for it is pending, and its bound action
\* is not executed after its release.
C14_EntryOnlyWhileHeld ==
    \A k \in Keys :
        k \notin phys
        => /\ k \notin DOMAIN key_states
           /\ \A id \in DOMAIN tasks :
                 tasks[id].key = k => tasks[id].cancelled
           /\ \A p \in DOMAIN press_log :
                 (press_log[p].key = k /\ press_log[p].cancelled_by = "key_up")
                 => ExecCount(p) = 0

(***************************************************************************)
(* C15                                                                     *)
(***************************************************************************)
\* the most recent step was a handle_event call in which the process of a
\* subscriber returned Block
SubscriberBlocked ==
    \E i \in DOMAIN disp.called :
        disp.called[i].role = "subscriber" /\ disp.called[i].resp = "Block"

\* C15: if the process of a strategy subscribed to the event returns Block,
\* handle_event returns Block, bindings.get is not reached and no action is
\* executed directly.
C15_SubscriberBlockWins ==
    SubscriberBlocked
    => /\ disp.resp = "Block"
       /\ ~disp.lookup
       /\ disp.direct = << >>
       /\ \A i \in DOMAIN disp.called : disp.called[i].role = "subscriber"

\* a subscriber blocked the key-down of a key that has a binding with an
\* executable action and no strategy
C15_Witness ==
    /\ SubscriberBlocked
    /\ disp.kind = "Key" /\ disp.down
    /\ disp.key \in DOMAIN bindings
    /\ bindings[disp.key].strategy = None
    /\ as_response(resolve_action(bindings, disp.key, window)) = "None"
    /\ disp.resp = "Block"

(***************************************************************************)
(* C16                                                                     *)
(***************************************************************************)
\* number of calls of the process of strategy name made for a subscriber in
\* the most recent handle_event call
SubscriberCalls(name) ==
    Cardinality({i \in DOMAIN disp.called :
                    /\ disp.called[i].role = "subscriber"
                    /\ disp.called[i].name = name})

\* C16: every strategy subscribed to the id of a dispatched event has its
\* process called for that event exactly once, also when a subscriber called
\* before it returned Block.
C16_EverySubscriberCalledOnce ==
    (disp.kind # "None" /\ EventId(disp) \in DOMAIN subscriptions)
    => \A j \in DOMAIN subscriptions[EventId(disp)] :
          SubscriberCalls(subscriptions[EventId(disp)][j]) = 1

(***************************************************************************)
(* C17                                                                     *)
(***************************************************************************)
\* the most recent step was a handle_event call for a key event of a key
\* without a binding that no subscriber blocked
LastUnboundKey ==
    disp.kind = "Key" /\ disp.key \notin DOMAIN bindings /\ ~SubscriberBlocked

\* the most recent step was a handle_event call for a scroll event without
\* subscribers, or whose subscribers all returned Passthrough
LastFreeScroll == disp.kind = "Scroll" /\ ~SubscriberBlocked

\* the part of a strategy's state that its behaviour depends on: the key
\* states, last_release and the hold timers
StrategyState == {"key_states", "last_release", "tasks"}

Qualifies(rule, info) ==
    LET c == rule.condition
    IN  \/ \A f \in DOMAIN c : c[f] = None
        \/ /\ c.title # None => glob_match(c.title[1], info.title)
           /\ c.class # None => glob_match(c.class[1], info.class)
           /\ c.binary # None => glob_match(c.binary[1], info.binary)
           /\ c.not_title # None => ~glob_match(c.not_title[1], info.title)
           /\ c.not_class # None => ~glob_match(c.not_class[1], info.class)
           /\ c.not_binary # None => ~glob_match(c.not_binary[1], info.binary)

\* the rules of the binding of K1 and the positions of those that qualify
\* for the focused window
ProbedRules == bindings["K1"].action.rules
QualifyingRules == {i \in DOMAIN ProbedRules : Qualifies(ProbedRules[i], window)}

\* C18: resolve_action on a conditional binding returns the action of the
\* first rule, in list order, that qualifies for the window, and consults no
\* rule after it; if no rule qualifies it returns none and handle_event
\* returns Passthrough.
C18_FirstQualifyingRuleWins ==
    probe.done
    => IF QualifyingRules = {}
       THEN /\ probe.action = NoAction
            /\ probe.resp = "Passthrough"
            /\ disp.direct = << >>
       ELSE \E i \in QualifyingRules :
               /\ \A j \in QualifyingRules : i <= j
               /\ probe.action = ProbedRules[i].action
               /\ probe.consulted = i

\* the first rule is rejected by a negative pattern that matches, the second
\* rule qualifies and gives the action; a third choice of action exists
C18_Witness ==
    /\ probe.done
    /\ Len(ProbedRules) = 2
    /\ QualifyingRules = {2}
    /\ ProbedRules[1].condition = NotClassB
    /\ ProbedRules[1].action # ProbedRules[2].action
    /\ probe.action = ProbedRules[2].action

\* no rule qualifies and the key passes through
C18_WitnessNone ==
    /\ probe.done
    /\ Len(ProbedRules) = 2
    /\ QualifyingRules = {}
    /\ probe.resp = "Passthrough"

(***************************************************************************)
(* C19, C20                                                                *)
(***************************************************************************)
\* the most recent step was a handle_event call for a key event of a bound
\* key that no subscriber blocked; the window is the one focused at the call
LastBoundKey ==
    disp.kind = "Key" /\ disp.key \in DOMAIN bindings /\ ~SubscriberBlocked

\* the action the binding of the key of that event resolves to
LastResolved == resolve_action(bindings, disp.key, window)

\* C19: when the action of a bound key resolves to Passthrough or Block,
\* handle_event returns that response, for key-down and key-up alike;
\* nothing is executed, the strategy of the binding is not called and no
\* strategy state changes.
C19_ResponseActionsReturnDirectly ==
    (LastBoundKey /\ LastResolved \in {"Passthrough", "Block"})
    => /\ disp.resp = LastResolved
       /\ disp.direct = << >>
       /\ disp.called = << >>
       /\ last.executed = << >>
       /\ disp.changed = {}

\* the key-up of a key bound to a strategy resolves to Block while the
\* strategy tracks the key
C19_Witness ==
    /\ LastBoundKey
    /\ ~disp.down
    /\ bindings[disp.key].strategy = Some("s1")
    /\ LastResolved = "Block"
    /\ disp.key \in DOMAIN key_states
    /\ disp.resp = "Block"

C20_WitnessDown ==
    /\ LastBoundKey
    /\ disp.down
    /\ bindings[disp.key].strategy = None
    /\ disp.direct = << "VolumeDown" >>

(***************************************************************************)
(* C21                                                                     *)
(***************************************************************************)
IsPrefix(a, b) == Len(a) <= Len(b) /\ a = SubSeq(b, 1, Len(a))

IsKey(entry) == entry.kind = "Key"

IsPassedKey(call) == call.event.kind = "Key" /\ call.resp = "Passthrough"

Positions(entries) == [i \in DOMAIN entries |-> entries[i].n]

\* the keyboard events the applications received
KeysDelivered == Positions(SelectSeq(apps, IsKey))

\* the keyboard events the handler answered Passthrough, as handled
KeysPassed == Positions(SelectSeq(handled, IsPassedKey))

PhysicalPointers == { x.deviceid : x \in { d \in XDevices : d.name = "mouse" } }

FromHardware(item) ==
    /\ item.origin \in {"evdev", "hook", "xinput"}
    /\ item.origin = "xinput" => item.sourceid \in PhysicalPointers

\* C22: every event a handler call is made for comes from input hardware:
\* never an event sent with SendInput (injection marker), never a scroll
\* press of a pointer that is not a whitelisted physical one.
C22_NoHandlerOnInjected ==
    /\ \A i \in DOMAIN handled : FromHardware(handled[i])
    /\ \A i \in DOMAIN in_flight : FromHardware(in_flight[i])

C22_Witness ==
    /\ \E i \in DOMAIN apps : apps[i].kind = "Injected"
    /\ handled # << >>

(***************************************************************************)
(* C23                                                                     *)
(***************************************************************************)
\* C23: the handler calls are made in the order in which the events arrived
\* at the channels the run loop receives from.
C23_ArrivalOrder ==
    \A i, j \in DOMAIN handled : i < j => handled[i].n < handled[j].n

(***************************************************************************)
(* C24                                                                     *)
(***************************************************************************)
\* C24: no handler call is made for an auto-repeat tick of a held key.
C24_NoAutoRepeat ==
    /\ \A i \in DOMAIN handled : ~handled[i].repeat
    /\ \A i \in DOMAIN in_flight : ~in_flight[i].repeat

(***************************************************************************)
(* C25                                                                     *)
(***************************************************************************)
\* C25: at most one handler call is under way, and while one is under way
\* the run loop takes no event from its channels.
C25_OneAtATime ==
    [][ /\ Len(in_flight') <= 1
        /\ in_flight # << >> =>
              /\ Len(event_rx') >= Len(event_rx)
              /\ Len(scroll_rx') >= Len(scroll_rx) ]_vars

C25_Witness ==
    /\ in_flight # << >>
    /\ event_rx # << >>
    /\ handled # << >>

(***************************************************************************)
(* C26: side effects take effect in issuance order                         *)
(***************************************************************************)

\* what has reached the OS is ordered as the requests were issued
EffectsInOrder ==
    \A i, j \in DOMAIN effects : i < j => effects[i].n <= effects[j].n

\* the events of one request are not interleaved with those of another
EffectsContiguous ==
    \A i, j, k \in DOMAIN effects :
        (i < k /\ k < j /\ effects[i].n = effects[j].n)
            => effects[k].n = effects[i].n

\* C26: if request A (send_key or send_media) is issued before request B,
\* the effect of A reaches the OS before the effect of B, and the events of
\* one synthetic key combination are never interleaved with another emit.
C26_IssuanceOrder == EffectsInOrder /\ EffectsContiguous

(***************************************************************************)
(* C27                                                                     *)
(***************************************************************************)
\* the scroll event that arrived as number n was answered Passthrough, the
\* X11 thread is alive, and the event was not replayed
ReplayOwed(n) ==
    /\ x11_thread # "dead"
    /\ \E i \in DOMAIN handled :
          /\ handled[i].n = n
          /\ handled[i].event.kind = "Scroll"
          /\ handled[i].resp = "Passthrough"
    /\ \A i \in DOMAIN apps : ~(apps[i].kind = "Scroll" /\ apps[i].n = n)

\* the scroll events replayed, and those answered Passthrough
IsScroll(entry) == entry.kind = "Scroll"

IsPassedScroll(call) == call.event.kind = "Scroll" /\ call.resp = "Passthrough"

\* C27: on Linux a scroll event answered Passthrough is replayed, once, and
\* the replay waits for nothing but the X11 thread (no further X11 event has
\* to arrive); a scroll event answered Block is never replayed.
C27_PassedScrollReplayed ==
    /\ [](platform = "linux" =>
            IsPrefix(Positions(SelectSeq(apps, IsScroll)),
                     Positions(SelectSeq(handled, IsPassedScroll))))
    /\ \A n \in 1..MaxEvents : ReplayOwed(n) ~> ~ReplayOwed(n)

(***************************************************************************)
(* C28                                                                     *)
(***************************************************************************)
\* C28: once no keyboard stream is left the run loop ends and run returns,
\* with or without the scroll grab and the scroll thread; as long as a
\* keyboard stream is left the loop goes on.
C28_LoopEndsWithoutSenders ==
    /\ (platform = "linux" /\ senders = {}) ~> run_pc = "returned"
    /\ [](run_pc = "returned" => senders = {})

(***************************************************************************)
(* C29: the duplicate-binding diagnostic                                   *)
(***************************************************************************)

\* the key code binding i of the loaded config resolves to, -1 if none
CodeOf(i) == from_config_str(load.bindings[i].key)

\* the diagnostics of the validation error that are duplicate-binding
\* diagnostics at the key of binding i
DuplicatesAt(i) ==
    { d \in DOMAIN load.issues :
        /\ load.issues[d].label = "duplicate"
        /\ load.issues[d].span = load.bindings[i].key_span }

\* C29: when two binding key specifiers resolve to the same key code, load
\* fails with exactly one duplicate-binding diagnostic for that code; it is
\* attached to the definition that appears later in the source and its help
\* text names the line of the definition that appears earlier, whatever the
\* order in which the parsed bindings are iterated.
C29_DuplicateOnLater ==
    load.done =>
        \A i, j \in DOMAIN load.bindings :
            (/\ i < j
             /\ CodeOf(i) >= 0
             /\ CodeOf(i) = CodeOf(j)
             /\ \A k \in DOMAIN load.bindings : CodeOf(k) = CodeOf(i) => k \in { i, j })
            => /\ load.result = "Err"
               /\ DuplicatesAt(i) = {}
               /\ Cardinality(DuplicatesAt(j)) = 1
               /\ \A d \in DuplicatesAt(j) :
                    load.issues[d].original_line =
                        byte_offset_to_line(load.source_content,
                                            load.bindings[i].key_span.start)

(***************************************************************************)
(* C30: every validation error is collected                                *)
(***************************************************************************)

\* the validation errors of binding i: its key is unknown, its key code is
\* that of a binding defined earlier, its strategy is not defined
ErrorsOf(i) ==
    (IF CodeOf(i) < 0 THEN 1 ELSE 0)
    + (IF CodeOf(i) >= 0 /\ \E k \in 1..(i - 1) : CodeOf(k) = CodeOf(i) THEN 1 ELSE 0)
    + (IF load.bindings[i].strategy \notin StrategyNames \cup { "None" } THEN 1 ELSE 0)

RECURSIVE ErrorsUpTo(_)
ErrorsUpTo(n) == IF n = 0 THEN 0 ELSE ErrorsUpTo(n - 1) + ErrorsOf(n)

\* C30: validation never stops at the first problem: for a config with N
\* independent validation errors (an unknown key, an undefined strategy
\* reference, also both on the same binding) the validation error has
\* exactly N diagnostics, ordered by span start.
C30_AllErrorsCollected ==
    load.done =>
        /\ Len(load.issues) = ErrorsUpTo(Len(load.bindings))
        /\ \A d, e \in DOMAIN load.issues :
            d < e => load.issues[d].span.start <= load.issues[e].span.start

(***************************************************************************)
(* C31: what load returns                                                  *)
(***************************************************************************)
\* config files in which a binding table is defined twice
RedefinedLists ==
    { bs \in [1..2 -> [key : KeySpecs, strategy : StrategyRefs]] :
        bs[1].key = bs[2].key }

\* a config file is about to be loaded, one that TOML accepts or one in
\* which a table is defined twice
LoadAnyInit ==
    /\ Loaded(ConfigX, 0, WinA)
    /\ NoDriver
    /\ NoEmit
    /\ \E bs \in BindingLists \cup RedefinedLists :
        \E order \in IterationOrders(Len(bs)) :
            load = [done |-> FALSE,
                    result |-> "None",
                    source_content |-> SourceContent(bs),
                    bindings |-> ParsedBindings(bs),
                    order |-> order,
                    issues |-> << >>,
                    runtime |-> NoRuntime]
    /\ NoAux

LoadAnyNext == parse_and_build

LoadAnySpec == LoadAnyInit /\ [][LoadAnyNext]_vars

\* in the runtime config each key code has one binding, and every strategy a
\* binding names is a key of the strategies map
RuntimeValid ==
    /\ \A a, b \in load.runtime.bindings : a.code = b.code => a = b
    /\ \A b \in load.runtime.bindings :
           b.strategy # "None" => b.strategy \in load.runtime.strategies

\* the bindings of the config whose key resolves are the bindings of the
\* runtime config
RuntimeComplete ==
    { b.key : b \in load.runtime.bindings }
        = { load.bindings[i].key : i \in DOMAIN load.bindings }

\* C31 as stated: load returns a RuntimeConfig if and only if no validation
\* issue was recorded; in every RuntimeConfig it returns each key code has at
\* most one binding and every strategy name a binding references is a key of
\* the strategies map
C31_RuntimeIffNoIssue ==
    load.done =>
        /\ load.result = "Ok" <=> load.issues = << >>
        /\ load.result = "Ok" => RuntimeValid

\* C31, amended: for a source that parses as TOML, load returns a
\* RuntimeConfig if and only if no validation issue was recorded; a source
\* that does not parse gives the parse error, with no validation issue; in
\* every RuntimeConfig returned each key code has at most one binding, every
\* binding of the config is there and every strategy name a binding
\* references is a key of the strategies map
C31_RuntimeIffParsedNoIssue ==
    load.done =>
        /\ load.result = "Ok" <=> (DeTableParses(load.bindings) /\ load.issues = << >>)
        /\ load.result = "ParseErr" <=> ~DeTableParses(load.bindings)
        /\ load.result = "Ok" => RuntimeValid /\ RuntimeComplete
        /\ load.result # "Ok" => load.runtime = NoRuntime

\* a runtime config was returned with two bindings, one of which names a
\* strategy
C31_Witness ==
    /\ load.done
    /\ load.result = "Ok"
    /\ Cardinality(load.runtime.bindings) >= 2
    /\ \E b \in load.runtime.bindings : b.strategy = "hold"

\* a source that does not parse was loaded
C31_WitnessParse ==
    /\ load.done
    /\ load.result = "ParseErr"
    /\ load.issues = << >>

(***************************************************************************)
(* C34                                                                     *)
(***************************************************************************)
\* the step is no process call: it is a step of a hold-timer task or of the
\* clock
OutsideProcess == last'.kind = "None"

\* number of platform calls the action of task id makes when it is executed
Executes(id) ==
    IF tasks[id].action \in {"Passthrough", "Block"} THEN 0 ELSE 1

Noticed == { timer_rx[i] : i \in DOMAIN timer_rx }

\* the key states once the queued notices are applied: a noticed key that is
\* Holding is Active, every other entry is as it was
Drained ==
    [k \in DOMAIN key_states |->
        IF k \in Noticed /\ key_states[k].st = "Holding"
        THEN [st |-> "Active", press |-> key_states[k].press]
        ELSE key_states[k]]

\* C35: process drains all pending promote notices before it handles its
\* event.  A key whose hold timer has fired is Active by the time the event
\* is handled: the key-up of such a key records last_release, the key-down
\* of an Idle sibling sees the gate open and executes at once.  A notice
\* that names a key that is not Holding when it is drained changes nothing.
C35_DrainedFirst ==
    [][ last'.kind # "None" =>
          /\ timer_rx' = << >>
          /\ last'.pre = Drained
          /\ \A k \in Keys :
                ( /\ last'.kind = "Key" /\ ~last'.down /\ last'.key = k
                  /\ StateOf(Drained, k) = "Active" )
                => /\ last_release' = now
                   /\ k \notin DOMAIN key_states'
          /\ \A k \in Keys :
                ( /\ last'.kind = "Key" /\ last'.down /\ last'.key = k
                  /\ StateOf(Drained, k) = "Idle"
                  /\ \E j \in DOMAIN Drained : Drained[j].st = "Active" )
                => /\ last'.gate
                   /\ StateOf(key_states', k) = "Active"
                   /\ Len(last'.executed) = 1
      ]_vars

\* the hold timer of K1 fired, then the key-up of K1 was processed: the key
\* was Holding when the call began, Active when the key-up was handled
C35_Witness ==
    /\ LastUp("K1")
    /\ StateOf(last.before, "K1") = "Holding"
    /\ StateOf(last.pre, "K1") = "Active"
    /\ last.wrote_lr
    /\ last_release = now

\* a notice named a key that was not Holding when it was drained (the key
\* had been diverted) and the key stayed as it was
C35_WitnessStale ==
    /\ last.kind # "None"
    /\ \E k \in DOMAIN last.before :
        /\ last.before[k].st = "Diverted"
        /\ last.pre[k].st = "Diverted"
        /\ \E p \in DOMAIN press_log :
            press_log[p].key = k /\ press_log[p].fired /\ last.before[k].press = p

LiveTimers(k) ==
    { id \in DOMAIN tasks : tasks[id].key = k /\ ~tasks[id].cancelled }

\* key k is Holding and the timer of its press has not fired
HoldingUnfired(k) ==
    /\ StateOf(key_states, k) = "Holding"
    /\ key_states[k].press \in DOMAIN tasks

\* a process call promotes key k on a notice although the timer of the
\* press of k under way has not fired: the notice is that of an earlier press
StalePromotion ==
    /\ last'.kind # "None"
    /\ \E k \in last'.promoted : ~press_log[key_states[k].press].fired

\* the timer of an earlier press of a key fires while a later press of that
\* key is under way
StaleExecution ==
    \E id \in DOMAIN tasks :
        /\ id \notin DOMAIN tasks'
        /\ timer_rx' = Append(timer_rx, tasks[id].key)
        /\ tasks[id].key \in DOMAIN key_states
        /\ key_states[tasks[id].key].press # id

\* C38: for each key there is at most one hold timer that has neither fired
\* nor been cancelled, and there is one exactly while the key is Holding
\* with an unfired timer; a promote notice or an action execution produced
\* by the timer of an earlier press of a key never promotes, or fires the
\* action for, a later press of that key.
C38_OneTimerPerPress ==
    /\ [](\A k \in Keys :
            /\ Cardinality(LiveTimers(k)) <= 1
            /\ (LiveTimers(k) # {}) <=> HoldingUnfired(k)
            /\ HoldingUnfired(k) => LiveTimers(k) = { key_states[k].press })
    /\ [][ ~StalePromotion /\ ~StaleExecution ]_vars

(***************************************************************************)
(* Pairs of key events under a fixed window and a fixed configuration      *)
(* (main.rs, handle_event; gated_hold.rs, process)                         *)
(***************************************************************************)
\* no response was given yet to either edge of a key
NoPair == [down |-> "None", up |-> "None"]

\* a configuration is loaded and a window has the focus; neither changes
PairInit ==
    /\ \E config \in {ConfigX, ConfigY, ConfigZ} :
           \E focused \in Windows : Loaded(config, DispatchStart, focused)
    /\ NoDriver
    /\ NoEmit
    /\ load = NoLoad
    /\ mpris = [pc |-> "off"]
    /\ locks = [pc |-> "off"]
    /\ pairs = [k \in Keys |-> NoPair]

\* handle_event for the key-down of a key that is up; a new pair begins with
\* the response
PairKeyDown ==
    \E k \in Keys \ phys :
        /\ HandleEvent(KeyEvent(k, TRUE))
        /\ pairs' = [pairs EXCEPT ![k] = [down |-> disp'.resp, up |-> "None"]]
        /\ UNCHANGED << driver_vars, emit_vars, load, mpris, locks >>

\* handle_event for the key-up of a key that is down; its response completes
\* the pair
PairKeyUp ==
    \E k \in phys :
        /\ HandleEvent(KeyEvent(k, FALSE))
        /\ pairs' = [pairs EXCEPT ![k].up = disp'.resp]
        /\ UNCHANGED << driver_vars, emit_vars, load, mpris, locks >>

PairNext ==
    \/ PairKeyDown
    \/ PairKeyUp
    \/ DispatchScroll
    \/ TimerFires
    \/ TimerCancels
    \/ Tick

PairSpec == PairInit /\ [][PairNext]_vars

\* C39: while the focused window and the configuration stay fixed, the
\* key-up of a key gets from the dispatcher the response its preceding
\* key-down got, Block or Passthrough; and process of a gated-hold strategy
\* returns Block for every key-down and every key-up
C39_UpAnswersLikeDown ==
    /\ \A k \in Keys :
           /\ pairs[k].down \in {"None", "Block", "Passthrough"}
           /\ pairs[k].up # "None" => pairs[k].up = pairs[k].down
    /\ last.kind = "Key" => last.resp = "Block"
    /\ \A i \in DOMAIN disp.called :
           disp.kind = "Key" => disp.called[i].resp = "Block"

\* a pair was blocked while another pair was passed through, and the key-up
\* just handled went through process of a strategy in a state other than
\* Idle
C39_Witness ==
    /\ \E k \in Keys : pairs[k] = [down |-> "Block", up |-> "Block"]
    /\ \E k \in Keys : pairs[k] = [down |-> "Passthrough", up |-> "Passthrough"]
    /\ last.kind = "Key"
    /\ ~last.down
    /\ StateOf(last.before, last.key) # "Idle"

(***************************************************************************)
(* handle_event step by step: the strategy locks (main.rs, handle_event)   *)
(***************************************************************************)
\* no event is being handled
NoEvent == [kind |-> "None", key |-> "", down |-> FALSE, up |-> FALSE]

\* no call of handle_event was made yet
NoLocks ==
    [pc |-> "idle", event |-> NoEvent, names |-> << >>, held |-> {},
     resp |-> "None", called |-> << >>, ctx |-> "", lookup |-> FALSE,
     resolved |-> "", direct |-> << >>, returned |-> "None"]

\* what the call in progress has done so far, with the strategies as they
\* are now
LockDispatch ==
    [ s1 |-> World, s2 |-> S2World, resp |-> locks.resp,
      called |-> locks.called, ctx |-> locks.ctx, lookup |-> locks.lookup,
      resolved |-> locks.resolved, direct |-> locks.direct ]

\* variant of DropGuard: strategy_guard outlives the iteration of the loop
DropGuard_Keep(held, name) == held

\* strategy_guard goes out of scope: at the end of an iteration of the loop
\* over the subscribers, at a return
DropGuard(held, name) == held \ {name}

\* does the key event reach the strategy of its binding
ReachesBindingStrategy(event) ==
    /\ event.kind = "Key"
    /\ event.key \in DOMAIN bindings
    /\ resolve_action(bindings, event.key, window) # NoAction
    /\ as_response(resolve_action(bindings, event.key, window)) = "None"
    /\ bindings[event.key].strategy # None
    /\ bindings[event.key].strategy[1] \in Strategies

\* the fields of the strategies after a step of the call
StrategiesBecome(d) ==
    /\ key_states' = d.s1.key_states
    /\ last_release' = d.s1.last_release
    /\ platform_handle' = d.s1.platform_handle
    /\ timer_rx' = d.s1.timer_rx
    /\ tasks' = d.s1.tasks
    /\ press_log' = d.s1.press_log
    /\ last_active' = d.s1.last_active
    /\ s2_handle' = d.s2.platform_handle

\* a step of the call that calls no process
StrategiesKept ==
    /\ press_log' = Retire
    /\ last' = NoCall
    /\ UNCHANGED << key_states, last_release, platform_handle, timer_rx, tasks,
                    last_active, s2_handle >>

\* the call so far is d; the call goes on at pc with the subscribers names
\* still to call and the locks held
LocksBecome(d, pc, names, held, returned) ==
    locks' = [pc |-> pc, event |-> locks.event, names |-> names, held |-> held,
              resp |-> d.resp, called |-> d.called, ctx |-> d.ctx,
              lookup |-> d.lookup, resolved |-> d.resolved,
              direct |-> d.direct, returned |-> returned]

LockInit ==
    /\ Loaded(ConfigX, DispatchStart, WinA)
    /\ NoDriver
    /\ NoEmit
    /\ load = NoLoad
    /\ mpris = [pc |-> "off"]
    /\ locks = NoLocks
    /\ pairs = << >>

\* the platform calls handle_event; the calls are made one at a time
LockCall ==
    /\ locks.pc = "idle"
    /\ \E event \in {KeyEvent(k, TRUE) : k \in Keys \ phys}
                    \cup {KeyEvent(k, FALSE) : k \in phys}
                    \cup {ScrollEvent(u) : u \in BOOLEAN} :
           /\ event.down => Len(press_log) < MaxPresses
           /\ locks' = [NoLocks EXCEPT
                  !.pc = "loop",
                  !.event = event,
                  !.names = IF EventId(event) \in DOMAIN subscriptions
                            THEN subscriptions[EventId(event)] ELSE << >>]
           /\ phys' = Physical(event)
    /\ StrategiesKept
    /\ disp' = NoDispatch
    /\ UNCHANGED << now, diverts, window, bindings, subscriptions, probe >>
    /\ UNCHANGED << driver_vars, emit_vars, load, mpris, pairs >>

\* strategy.lock().await for the next subscriber; the task waits while the
\* mutex is held
LockSubscriber ==
    /\ locks.pc = "loop"
    /\ locks.names # << >>
    /\ Head(locks.names) \notin locks.held
    /\ locks' = [locks EXCEPT !.pc = "sub_locked",
                              !.held = @ \cup {Head(locks.names)}]
    /\ StrategiesKept
    /\ UNCHANGED << now, diverts, window, bindings, subscriptions, probe, phys,
                    disp >>
    /\ UNCHANGED << driver_vars, emit_vars, load, mpris, pairs >>

\* strategy_guard.process(&event, &ctx).await for the subscriber, then the
\* return at Block or the end of the iteration
ProcessSubscriber ==
    /\ locks.pc = "sub_locked"
    /\ \E d \in { CallProcess(LockDispatch, Head(locks.names), "subscriber",
                              locks.event, DummyAction) } :
           /\ StrategiesBecome(d)
           /\ last' = IF Head(locks.names) = "s1"
                      THEN CallRecord(locks.event, d.ctx, d.s1) ELSE NoCall
           /\ IF d.resp = "Block"
              THEN /\ LocksBecome(d, "idle", << >>,
                                  locks.held \ {Head(locks.names)}, "Block")
                   /\ disp' = DispatchRecord(locks.event, d)
              ELSE /\ LocksBecome(d, "loop", Tail(locks.names),
                                  DropGuard(locks.held, Head(locks.names)),
                                  "None")
                   /\ disp' = NoDispatch
    /\ UNCHANGED << now, diverts, window, bindings, subscriptions, probe, phys >>
    /\ UNCHANGED << driver_vars, emit_vars, load, mpris, pairs >>

\* after the loop, on a path that calls no strategy: a scroll event is passed
\* through; a key event gets its response from the binding lookup, the action
\* or the direct execution
ReturnDirectly ==
    /\ locks.pc = "loop"
    /\ locks.names = << >>
    /\ ~ReachesBindingStrategy(locks.event)
    /\ \E d \in { IF locks.event.kind = "Scroll"
                  THEN [LockDispatch EXCEPT !.resp = "Passthrough"]
                  ELSE HandleBinding([LockDispatch EXCEPT !.resp = "None"],
                                     locks.event) } :
           /\ LocksBecome(d, "idle", << >>, locks.held, d.resp)
           /\ disp' = DispatchRecord(locks.event, d)
    /\ StrategiesKept
    /\ UNCHANGED << now, diverts, window, bindings, subscriptions, probe, phys >>
    /\ UNCHANGED << driver_vars, emit_vars, load, mpris, pairs >>

\* after the loop: strategy.lock().await for the strategy of the binding
LockBinding ==
    /\ locks.pc = "loop"
    /\ locks.names = << >>
    /\ ReachesBindingStrategy(locks.event)
    /\ bindings[locks.event.key].strategy[1] \notin locks.held
    /\ locks' = [locks EXCEPT
           !.pc = "bind_locked",
           !.held = @ \cup {bindings[locks.event.key].strategy[1]}]
    /\ StrategiesKept
    /\ UNCHANGED << now, diverts, window, bindings, subscriptions, probe, phys,
                    disp >>
    /\ UNCHANGED << driver_vars, emit_vars, load, mpris, pairs >>

\* return strategy_guard.process(&event, &ctx).await for the strategy of the
\* binding
ProcessBinding ==
    /\ locks.pc = "bind_locked"
    /\ \E d \in { HandleBinding([LockDispatch EXCEPT !.resp = "None"],
                                locks.event) } :
           /\ StrategiesBecome(d)
           /\ last' = IF Called(d.called, "s1") /\ d.called[Len(d.called)].name = "s1"
                      THEN CallRecord(locks.event, d.ctx, d.s1) ELSE NoCall
           /\ LocksBecome(d, "idle", << >>,
                          locks.held \ {bindings[locks.event.key].strategy[1]},
                          d.resp)
           /\ disp' = DispatchRecord(locks.event, d)
    /\ UNCHANGED << now, diverts, window, bindings, subscriptions, probe, phys >>
    /\ UNCHANGED << driver_vars, emit_vars, load, mpris, pairs >>

\* the steps of the task that runs handle_event
HandlerSteps ==
    \/ LockSubscriber
    \/ ProcessSubscriber
    \/ ReturnDirectly
    \/ LockBinding
    \/ ProcessBinding

LockNext ==
    \/ LockCall
    \/ LockSubscriber
    \/ ProcessSubscriber
    \/ ReturnDirectly
    \/ LockBinding
    \/ ProcessBinding
    \/ TimerFires
    \/ TimerCancels
    \/ Tick

LockSpec == LockInit /\ [][LockNext]_vars

\* the runtime keeps polling the task of handle_event while it can go on
LockFairSpec == LockSpec /\ WF_vars(HandlerSteps)

\* the call holds no lock between two steps that take one, and none once it
\* has returned; it never holds two
OneLockAtMost ==
    /\ Cardinality(locks.held) <= 1
    /\ locks.pc \in {"idle", "loop"} => locks.held = {}
    /\ locks.pc \in {"sub_locked", "bind_locked"} => Cardinality(locks.held) = 1
    /\ locks.pc = "idle" /\ locks.event # NoEvent
           => locks.returned \in {"Block", "Passthrough"}

C40_WitnessBinding ==
    /\ locks.pc = "bind_locked"
    /\ locks.held = {"s1"}

(***************************************************************************)
(* The media player selection (platform/linux.rs, MprisPlayerInfo,         *)
(* MprisPlayerTracker, find_best_mpris_player)                             *)
(***************************************************************************)
\* the most players the session bus lists
MaxPlayers == 3

\* MprisPlayerTracker::FOCUS_EXPIRY, in seconds
FOCUS_EXPIRY == 600

\* MprisPlayerTracker::PLAYER_REFRESH_INTERVAL, in seconds
PLAYER_REFRESH_INTERVAL == 5

\* "org.mpris.MediaPlayer2.", written as one character
MprisPrefix == << "org.mpris.MediaPlayer2." >>

\* str::starts_with
starts_with(s, prefix) ==
    /\ Len(prefix) <= Len(s)
    /\ SubSeq(s, 1, Len(prefix)) = prefix

\* str::ends_with
ends_with(s, suffix) ==
    /\ Len(suffix) <= Len(s)
    /\ SubSeq(s, Len(s) - Len(suffix) + 1, Len(s)) = suffix

\* str::contains
contains(s, part) ==
    \E i \in 0..(Len(s) - Len(part)) : SubSeq(s, i + 1, i + Len(part)) = part

\* s.split(c).next(): what comes before the first c
split_first(s, c) ==
    IF \E i \in DOMAIN s : s[i] = c
    THEN SubSeq(s, 1, (CHOOSE i \in DOMAIN s :
                          s[i] = c /\ \A j \in 1..(i - 1) : s[j] # c) - 1)
    ELSE s

\* s.rsplit(c).next(): what comes after the last c
rsplit_first(s, c) ==
    IF \E i \in DOMAIN s : s[i] = c
    THEN SubSeq(s, (CHOOSE i \in DOMAIN s :
                       s[i] = c /\ \A j \in (i + 1)..Len(s) : s[j] # c) + 1, Len(s))
    ELSE s

\* strip_suffix("-bin"), or else "-browser", or else "-stable", or else the
\* name itself
strip_common_suffix(name) ==
    LET bin == << "-", "b", "i", "n" >>
        browser == << "-", "b", "r", "o", "w", "s", "e", "r" >>
        stable == << "-", "s", "t", "a", "b", "l", "e" >>
    IN  IF ends_with(name, bin) THEN SubSeq(name, 1, Len(name) - Len(bin))
        ELSE IF ends_with(name, browser)
             THEN SubSeq(name, 1, Len(name) - Len(browser))
        ELSE IF ends_with(name, stable)
             THEN SubSeq(name, 1, Len(name) - Len(stable))
        ELSE name

\* struct MprisPlayerInfo
MprisPlayerInfo(service_name, identity, playback_status) ==
    [service_name |-> service_name, identity |-> identity,
     playback_status |-> playback_status]

is_playing(player) == player.playback_status = "Playing"

\* the service name without the prefix, up to the first "."
player_name(player) ==
    split_first(IF starts_with(player.service_name, MprisPrefix)
                THEN SubSeq(player.service_name, Len(MprisPrefix) + 1,
                            Len(player.service_name))
                ELSE player.service_name,
                ".")

\* the closure matches of matches_window: both strings non-empty and one
\* contains the other
either_contains(a, b) ==
    /\ a # << >>
    /\ b # << >>
    /\ contains(a, b) \/ contains(b, a)

matches_window(player, w) ==
    LET name == to_lowercase(player_name(player))
        identity == to_lowercase(player.identity)
        binary_name == to_lowercase(rsplit_first(w.binary, "/"))
        class == to_lowercase(w.class)
    IN  \/ either_contains(binary_name, name)
        \/ either_contains(class, name)
        \/ either_contains(binary_name, identity)
        \/ either_contains(class, identity)

matches_process_family(player, w) ==
    LET name == to_lowercase(player_name(player))
        binary_name == to_lowercase(rsplit_first(w.binary, "/"))
        binary_base == strip_common_suffix(binary_name)
        player_base == strip_common_suffix(name)
    IN  /\ binary_name # << >>
        /\ \/ binary_base = player_base
           \/ starts_with(binary_base, player_base)
           \/ starts_with(player_base, binary_base)

\* MprisPlayerTracker::record_playing at the instant at
record_playing(tracker, name, at) ==
    [tracker EXCEPT !.last_playing = MapInsert(@, to_lowercase(name), at)]

\* MprisPlayerTracker::record_focus at the instant at
record_focus(tracker, name, at) ==
    [tracker EXCEPT !.last_focused = MapInsert(@, to_lowercase(name), at)]

\* MprisPlayerTracker::get_valid_focus at the instant at; NoInstant stands
\* for None, which Option orders below every Some
get_valid_focus(tracker, name, at) ==
    IF /\ to_lowercase(name) \in DOMAIN tracker.last_focused
       /\ at - tracker.last_focused[to_lowercase(name)] < FOCUS_EXPIRY
    THEN tracker.last_focused[to_lowercase(name)]
    ELSE NoInstant

\* MprisPlayerTracker::get_last_playing
get_last_playing(tracker, name) ==
    IF to_lowercase(name) \in DOMAIN tracker.last_playing
    THEN tracker.last_playing[to_lowercase(name)]
    ELSE NoInstant

\* Ord::cmp of two numbers; false is 0 and true is 1
cmp(x, y) == IF x < y THEN "Less" ELSE IF x > y THEN "Greater" ELSE "Equal"

Bit(b) == IF b THEN 1 ELSE 0

\* Ordering::then_with
then_with(first, second) == IF first # "Equal" THEN first ELSE second

\* variant of compare_players: the window match is compared before the
\* playback status
compare_players_WindowFirst(a, b, w, tracker, at) ==
    then_with(cmp(Bit(matches_window(a, w)), Bit(matches_window(b, w))),
    then_with(cmp(Bit(is_playing(a)), Bit(is_playing(b))),
    then_with(cmp(Bit(matches_process_family(a, w)),
                  Bit(matches_process_family(b, w))),
    then_with(cmp(get_valid_focus(tracker, player_name(a), at),
                  get_valid_focus(tracker, player_name(b), at)),
              cmp(get_last_playing(tracker, player_name(a)),
                  get_last_playing(tracker, player_name(b)))))))

\* the closure given to max_by
compare_players(a, b, w, tracker, at) ==
    then_with(cmp(Bit(is_playing(a)), Bit(is_playing(b))),
    then_with(cmp(Bit(matches_window(a, w)), Bit(matches_window(b, w))),
    then_with(cmp(Bit(matches_process_family(a, w)),
                  Bit(matches_process_family(b, w))),
    then_with(cmp(get_valid_focus(tracker, player_name(a), at),
                  get_valid_focus(tracker, player_name(b), at)),
              cmp(get_last_playing(tracker, player_name(a)),
                  get_last_playing(tracker, player_name(b)))))))

\* Iterator::max_by, a fold that keeps the element it holds only if it
\* compares Greater than the next one: of several maximal elements the last
\* one is returned
RECURSIVE max_by(_, _, _, _, _)
max_by(best, rest, w, tracker, at) ==
    IF rest = << >> THEN best
    ELSE max_by(IF compare_players(best, Head(rest), w, tracker, at) = "Greater"
                THEN best ELSE Head(rest),
                Tail(rest), w, tracker, at)

\* the loop over the players that records the playing ones
RECURSIVE record_playing_all(_, _, _)
record_playing_all(tracker, players, at) ==
    IF players = << >> THEN tracker
    ELSE record_playing_all(
             IF is_playing(Head(players))
             THEN record_playing(tracker, player_name(Head(players)), at)
             ELSE tracker,
             Tail(players), at)

\* list_mpris_players and get_mpris_player_info: the players on the bus, in
\* the order in which the bus lists them
ListPlayers(m) == [m EXCEPT !.sel.players = m.bus]

\* the first critical section of find_best_mpris_player
RecordPlaying(m) ==
    [m EXCEPT !.tracker = record_playing_all(@, m.sel.players, m.now)]

\* the second critical section of find_best_mpris_player and its return
SelectBest(m) ==
    [m EXCEPT !.sel.result =
        Some(max_by(Head(m.sel.players), Tail(m.sel.players), m.window,
                    m.tracker, m.now).service_name),
              !.sel.pc = "done"]

\* find_best_mpris_player when nothing else runs between its steps
find_best_mpris_player(m) ==
    LET listed == ListPlayers(m)
    IN  IF listed.sel.players = << >>
        THEN [listed EXCEPT !.sel.result = None, !.sel.pc = "done"]
        ELSE SelectBest(RecordPlaying(listed))

\* the services of the test bus: two instances of one player, a player with
\* a display name in capitals, a player whose name ends in "-stable"
Services ==
    { [service_name |-> MprisPrefix \o << "c", "a", "f", "e" >>,
       identity |-> << "C", "a", "f", "e" >>],
      [service_name |-> MprisPrefix \o << "f", "a", "b", ".", "1" >>,
       identity |-> << >>],
      [service_name |-> MprisPrefix \o << "f", "a", "b", ".", "2" >>,
       identity |-> << >>],
      [service_name |-> MprisPrefix \o << "f", "a", "b", "-", "s", "t", "a", "b", "l", "e" >>,
       identity |-> << >>] }

\* the players the bus can list: at most MaxPlayers services, each one
\* playing or paused, in any order
Buses ==
    UNION { { b \in [1..n -> { MprisPlayerInfo(s.service_name, s.identity, st) :
                                s \in Services, st \in { "Playing", "Paused" } }] :
                \A i, j \in 1..n : b[i].service_name = b[j].service_name => i = j }
            : n \in 0..MaxPlayers }

\* the focused windows: the binary of the player "fab", a window whose class
\* is the display name of "cafe", a window that matches no player
MprisWindows ==
    { WindowInfo(<< >>, << "x" >>, << "/", "b", "/", "f", "a", "b", "-", "b", "i", "n" >>),
      WindowInfo(<< >>, << "C", "A", "F", "E" >>, << >>),
      WindowInfo(<< >>, << >>, << "e", "d" >>) }

\* the clock when the selection is made
MprisStart == FOCUS_EXPIRY + 400

\* the history of earlier polls and selections: focus stamps that expired
\* (also one exactly FOCUS_EXPIRY old) and valid ones, playing stamps
Trackers ==
    { [last_focused |-> lf, last_playing |-> lp, known_players |-> << >>,
       last_player_refresh |-> NoInstant] :
        lf \in { f \in UNION { [d -> { MprisStart - FOCUS_EXPIRY, MprisStart - 100,
                                        MprisStart - 50 }] :
                               d \in SUBSET { << "c", "a", "f", "e" >>,
                                              << "f", "a", "b" >> } } :
                   << "f", "a", "b" >> \in DOMAIN f
                       => f[<< "f", "a", "b" >>] = MprisStart - 50 },
        lp \in UNION { [d -> { MprisStart - 800 }] :
                       d \in SUBSET { << "c", "a", "f", "e" >>,
                                      << "f", "a", "b", "-", "s", "t", "a", "b", "l", "e" >> } } }

\* no selection was started, the poller sleeps, the mutex is free
MprisState(bus, w, tracker, at) ==
    [pc |-> "on", bus |-> bus, window |-> w, tracker |-> tracker, now |-> at,
     sel |-> [pc |-> "idle", players |-> << >>, result |-> None],
     poll |-> [pc |-> "sleep", last_focused_player |-> None],
     holder |-> "none"]

SelectInit ==
    /\ Loaded(ConfigX, 0, WinA)
    /\ NoDriver
    /\ NoEmit
    /\ load = NoLoad
    /\ \E bus \in Buses : \E w \in MprisWindows : \E tracker \in Trackers :
           mpris = MprisState(bus, w, tracker, MprisStart)
    /\ locks = [pc |-> "off"]
    /\ pairs = << >>

\* a media command is sent: find_best_mpris_player runs to its end
FindBest ==
    /\ mpris.sel.pc = "idle"
    /\ mpris' = find_best_mpris_player(mpris)
    /\ UNCHANGED << core_vars, driver_vars, emit_vars, load, locks, pairs >>

SelectNext == FindBest

SelectSpec == SelectInit /\ [][SelectNext]_vars

(***************************************************************************)
(* C32, C33: the selected player                                           *)
(***************************************************************************)
\* the candidates of the selection that has returned
Candidates == { mpris.sel.players[i] : i \in DOMAIN mpris.sel.players }

\* the priority levels of a candidate, highest first, with the history the
\* selection read
Levels(p) ==
    << Bit(is_playing(p)),
       Bit(matches_window(p, mpris.window)),
       Bit(matches_process_family(p, mpris.window)),
       get_valid_focus(mpris.tracker, player_name(p), mpris.now),
       get_last_playing(mpris.tracker, player_name(p)) >>

\* with the levels lv of the candidates, p is above q at the first level
\* where they differ
Beats(lv, p, q) ==
    \E l \in 1..5 :
        /\ lv[p][l] > lv[q][l]
        /\ \A k \in 1..(l - 1) : lv[p][k] = lv[q][k]

\* the candidate whose service name was returned
Chosen == CHOOSE p \in Candidates : Some(p.service_name) = mpris.sel.result

\* C32: the selector returns a candidate that no other candidate beats at
\* the first priority level where they differ (playing, window match,
\* process-family match, last focus within 10 minutes, last playing); a
\* playing candidate is chosen over one that is not playing whatever window
\* is focused; none is returned only when there is no candidate
C32_ChosenIsMaximal ==
    mpris.pc = "on" /\ mpris.sel.pc = "done" =>
        /\ mpris.sel.result = None <=> Candidates = {}
        /\ Candidates # {} =>
            /\ \E p \in Candidates : Some(p.service_name) = mpris.sel.result
            /\ \E lv \in { [p \in Candidates |-> Levels(p)] } :
                   \A p \in Candidates : ~Beats(lv, p, Chosen)
            /\ (\E p \in Candidates : is_playing(p)) => is_playing(Chosen)

\* a playing player was chosen although another candidate matches the
\* focused window and was focused last, and a third one only differs from
\* the chosen one at the level of the history
C32_Witness ==
    /\ mpris.pc = "on"
    /\ mpris.sel.pc = "done"
    /\ Cardinality(Candidates) = 3
    /\ is_playing(Chosen)
    /\ ~matches_window(Chosen, mpris.window)
    /\ \E p \in Candidates :
           /\ ~is_playing(p)
           /\ matches_window(p, mpris.window)
           /\ get_valid_focus(mpris.tracker, player_name(p), mpris.now)
                  > get_valid_focus(mpris.tracker, player_name(Chosen), mpris.now)

\* the selection decided at the level of the focus history: the candidates
\* are equal above it and a stamp that is FOCUS_EXPIRY old did not count
C32_WitnessFocus ==
    /\ mpris.pc = "on"
    /\ mpris.sel.pc = "done"
    /\ \E lv \in { [p \in Candidates |-> Levels(p)] } :
           \E p \in Candidates :
               /\ \A l \in 1..3 : lv[p][l] = lv[Chosen][l]
               /\ lv[p][4] = NoInstant
               /\ to_lowercase(player_name(p)) \in DOMAIN mpris.tracker.last_focused
               /\ lv[Chosen][4] # NoInstant

\* the bus lists the same players in the order o
Reordered(o) ==
    [mpris EXCEPT !.bus = [i \in DOMAIN mpris.bus |-> mpris.bus[o[i]]],
                  !.sel = [pc |-> "idle", players |-> << >>, result |-> None]]

\* C33: when several candidates are equal on every priority level the
\* choice is determined by service_name alone: for the same candidates,
\* window and history the selector returns the same candidate whatever the
\* order in which the candidates were enumerated
C33_OrderIndependent ==
    mpris.pc = "on" /\ mpris.sel.pc = "done" =>
        \A o \in IterationOrders(Len(mpris.bus)) :
            find_best_mpris_player(Reordered(o)).sel.result = mpris.sel.result

(***************************************************************************)
(* The focus monitor and the selection, step by step, with the mutex of    *)
(* the tracker (platform/linux.rs, mpris_focus_monitor,                    *)
(* find_best_mpris_player)                                                 *)
(***************************************************************************)
\* MprisPlayerTracker::needs_player_refresh at the instant at
needs_player_refresh(tracker, at) ==
    \/ tracker.last_player_refresh = NoInstant
    \/ at - tracker.last_player_refresh >= PLAYER_REFRESH_INTERVAL

\* MprisPlayerTracker::update_known_players at the instant at
update_known_players(tracker, players, at) ==
    [tracker EXCEPT !.known_players = players, !.last_player_refresh = at]

\* the player names the monitor extracts from the service names listed
KnownNames(bus) == [i \in DOMAIN bus |-> player_name(bus[i])]

\* does the known player called name match the window
KnownMatches(name, w) ==
    LET temp_info == MprisPlayerInfo(MprisPrefix \o name, name, << >>)
    IN  matches_window(temp_info, w) \/ matches_process_family(temp_info, w)

\* MprisPlayerTracker::find_matching_player: the first known player that
\* matches the window
find_matching_player(tracker, w) ==
    IF \E i \in DOMAIN tracker.known_players :
           KnownMatches(tracker.known_players[i], w)
    THEN Some(tracker.known_players[
             CHOOSE i \in DOMAIN tracker.known_players :
                 /\ KnownMatches(tracker.known_players[i], w)
                 /\ \A j \in 1..(i - 1) :
                        ~KnownMatches(tracker.known_players[j], w)])
    ELSE None

\* the program has started: the tracker is new, the monitor sleeps, no media
\* command was sent; the bus has at most one player
TrackerInit ==
    /\ Loaded(ConfigX, 0, WinA)
    /\ NoDriver
    /\ NoEmit
    /\ load = NoLoad
    /\ \E bus \in { b \in Buses : Len(b) <= 1 } : \E w \in MprisWindows :
           mpris = [MprisState(bus, w,
                               [last_focused |-> EmptyMap, last_playing |-> EmptyMap,
                                known_players |-> << >>,
                                last_player_refresh |-> NoInstant],
                               MprisStart)
                    EXCEPT !.poll = [pc |-> "sleep", last_focused_player |-> None,
                                     window_info |-> w]]
    /\ locks = [pc |-> "off"]
    /\ pairs = << >>

\* what no step of the monitor or of the selection changes
MprisOnly == UNCHANGED << core_vars, driver_vars, emit_vars, load, locks, pairs >>

\* the monitor wakes from its sleep and reads the active window; a window
\* without binary and class is skipped
PollWake ==
    /\ mpris.poll.pc = "sleep"
    /\ mpris' = IF mpris.window.binary = << >> /\ mpris.window.class = << >>
                THEN mpris
                ELSE [mpris EXCEPT !.poll.pc = "lock",
                                   !.poll.window_info = mpris.window]
    /\ MprisOnly

\* the monitor gets the mutex: tracker.lock().await; it goes on to list the
\* players if the list is due for a refresh
PollLock ==
    /\ mpris.poll.pc = "lock"
    /\ mpris.holder = "none"
    /\ mpris' = [mpris EXCEPT
           !.holder = "poller",
           !.poll.pc = IF needs_player_refresh(mpris.tracker, mpris.now)
                       THEN "listing" ELSE "match"]
    /\ MprisOnly

\* list_mpris_players(&dbus_conn).await returns to the monitor, with the
\* names or with None
PollListed ==
    /\ mpris.poll.pc = "listing"
    /\ \E listed \in BOOLEAN :
           mpris' = [mpris EXCEPT
               !.poll.pc = "match",
               !.tracker = IF listed
                           THEN update_known_players(@, KnownNames(mpris.bus),
                                                     mpris.now)
                           ELSE @]
    /\ MprisOnly

\* the monitor matches the window against the known players, stamps a new
\* focus, and lets go of the mutex
PollMatch ==
    /\ mpris.poll.pc = "match"
    /\ \E found \in { find_matching_player(mpris.tracker, mpris.poll.window_info) } :
           mpris' = [mpris EXCEPT
               !.poll.pc = "sleep",
               !.poll.last_focused_player = found,
               !.holder = "none",
               !.tracker = IF found # None /\ found # mpris.poll.last_focused_player
                           THEN record_focus(@, found[1], mpris.now)
                           ELSE @]
    /\ MprisOnly

\* a media command is sent: find_best_mpris_player starts to list the
\* players
SelStart ==
    /\ mpris.sel.pc \in { "idle", "done" }
    /\ mpris' = [mpris EXCEPT !.sel = [pc |-> "listing", players |-> << >>,
                                       result |-> None]]
    /\ MprisOnly

\* list_mpris_players and get_mpris_player_info have returned
SelListed ==
    /\ mpris.sel.pc = "listing"
    /\ mpris' = IF mpris.bus = << >>
                THEN [mpris EXCEPT !.sel.pc = "done"]
                ELSE [ListPlayers(mpris) EXCEPT !.sel.pc = "lock1"]
    /\ MprisOnly

\* the selection gets the mutex for its first critical section
SelLock1 ==
    /\ mpris.sel.pc = "lock1"
    /\ mpris.holder = "none"
    /\ mpris' = [mpris EXCEPT !.holder = "selector", !.sel.pc = "record"]
    /\ MprisOnly

\* the playing players are recorded; the guard is dropped at the end of the
\* block
SelRecord ==
    /\ mpris.sel.pc = "record"
    /\ mpris' = [RecordPlaying(mpris) EXCEPT !.holder = "none", !.sel.pc = "lock2"]
    /\ MprisOnly

\* the selection gets the mutex for its second critical section
SelLock2 ==
    /\ mpris.sel.pc = "lock2"
    /\ mpris.holder = "none"
    /\ mpris' = [mpris EXCEPT !.holder = "selector", !.sel.pc = "select"]
    /\ MprisOnly

\* the best player is selected and returned; the guard is dropped
SelSelect ==
    /\ mpris.sel.pc = "select"
    /\ mpris' = [SelectBest(mpris) EXCEPT !.holder = "none"]
    /\ MprisOnly

\* the user focuses another window
MprisFocus ==
    /\ \E w \in MprisWindows \ { mpris.window } :
           mpris' = [mpris EXCEPT !.window = w]
    /\ MprisOnly

\* time passes: the list of known players becomes due for a refresh
MprisTick ==
    /\ mpris.now < MprisStart + PLAYER_REFRESH_INTERVAL
    /\ mpris' = [mpris EXCEPT !.now = @ + PLAYER_REFRESH_INTERVAL]
    /\ MprisOnly

TrackerNext ==
    \/ PollWake
    \/ PollLock
    \/ PollListed
    \/ PollMatch
    \/ SelStart
    \/ SelListed
    \/ SelLock1
    \/ SelRecord
    \/ SelLock2
    \/ SelSelect
    \/ MprisFocus
    \/ MprisTick

TrackerSpec == TrackerInit /\ [][TrackerNext]_vars

\* a task is awaiting the listing of the players on the bus
AwaitsBus(task) ==
    \/ task = "poller" /\ mpris.poll.pc = "listing"
    \/ task = "selector" /\ mpris.sel.pc = "listing"

\* a task is waiting for the mutex of the tracker
AwaitsMutex(task) ==
    \/ task = "poller" /\ mpris.poll.pc = "lock"
    \/ task = "selector" /\ mpris.sel.pc \in { "lock1", "lock2" }

\* C37: the mutex of the history is held only while the history maps are
\* read or written: neither the focus poller nor the selection holds it
\* while it awaits the listing of the players on the bus, so neither waits
\* for the mutex behind the other's I/O
C37_NoLockAcrossIo ==
    mpris.pc = "on" =>
        \A task \in { "poller", "selector" } :
            /\ AwaitsBus(task) => mpris.holder # task
            /\ AwaitsMutex(task) =>
                   ~\E other \in { "poller", "selector" } :
                        mpris.holder = other /\ AwaitsBus(other)

====
